---- MODULE Spec2Model ----
(***************************************************************************)
(* Copytrading core of polytrade: the cursor/dedup model, the polling and  *)
(* mirroring pipeline of the multi-user CopytradingManager                 *)
(* (src/utils/copytrading.py) and of the standalone loop (src/main.py).    *)
(*                                                                         *)
(* Conventions of the model:                                               *)
(*   - money is counted in cents, scale factors in percent;                *)
(*   - a tx hash (a Python str) is a sequence of character codes, compared *)
(*     as Python compares strings;                                         *)
(*   - a trade of a source wallet is identified by its index in the        *)
(*     wallet's history (feed[w]), oldest first.                           *)
(***************************************************************************)
EXTENDS Integers, Sequences, FiniteSets, TLC

\* ------------------------------------------------------------------ bounds

\* Trades a source wallet makes during a run.
MaxTrades == 2

\* Window of the trade fetch (limit=50 in the source), scaled down.
FetchLimit == 2

\* Largest timestamp a source trade carries.
MaxTs == 2

\* Longest batch handed to the dedup step when it is checked on its own.
MaxBatch == 3

\* CopySubscription objects alive in one run of the bot process.
MaxObjects == 3

\* Registry operations called during a run.
MaxCalls == 2

\* Poll tasks created during a run.
MaxTasks == 3

\* ------------------------------------------------------- program constants

\* "if scaled_value < 1.0" -- the minimum viable order, in cents.
MinOrderCents == 100

\* TRADE_SCALE of the standalone loop (default "1.0"), in percent.
TRADE_SCALE == 100

Users == {1, 2}
Wallets == {"w1", "w2"}

\* TARGETS of the standalone loop: one watched wallet.
TARGETS == {"w1"}

\* The standalone loop trades for the one account of PRIVATE_KEY; the ledger
\* files its orders under this user.
OwnUser == 0

EmptyTx == <<>>
TxHashes == {<<1>>, <<2>>}

\* (side, shares, price in cents) of the trades a source wallet makes: a
\* sale of $2.00 and a purchase of $0.50.
TradeShapes ==
    { [side |-> "SELL", amount |-> 4, price |-> 50],
      [side |-> "BUY",  amount |-> 1, price |-> 50] }

ScaleFactors == {100}

\* ------------------------------------------------------------------ cursor

\* CopySubscription's defaults: last_seen_ts = 0, last_seen_tx = "",
\* last_seen_li = 0.
ZeroCursor == [ts |-> 0, tx |-> EmptyTx, li |-> 0]

\* Python's str "<": lexicographic by character, a proper prefix is smaller.
RECURSIVE StrLess(_, _)
StrLess(a, b) ==
    IF a = <<>> THEN b # <<>>
    ELSE IF b = <<>> THEN FALSE
    ELSE IF Head(a) # Head(b) THEN Head(a) < Head(b)
    ELSE StrLess(Tail(a), Tail(b))

\* The order of section 3: timestamp, then tx_hash, then log_index.
PosLess(p, q) ==
    \/ p.ts < q.ts
    \/ p.ts = q.ts /\ StrLess(p.tx, q.tx)
    \/ p.ts = q.ts /\ p.tx = q.tx /\ p.li < q.li

PosLeq(p, q) == p = q \/ PosLess(p, q)

\* trade_ptr(t): (timestamp, tx_hash, log_index or 0) of a Data API row.
trade_ptr(t) == [ts |-> t.ts, tx |-> t.tx, li |-> t.li]

\* Trade.from_data_api keeps timestamp and tx_hash and has no log_index
\* field; update_cursor writes last_seen_li = 0.
TradePos(t) == [ts |-> t.ts, tx |-> t.tx, li |-> 0]

\* A comparison that also keeps the trade at the cursor.
is_newer_or_equal(t, cur) ==
    \/ t.ts > cur.ts
    \/ t.ts = cur.ts /\ ~StrLess(t.tx, cur.tx)

\* CopytradingManager._is_newer(trade, cursor).
is_newer(t, cur) ==
    IF t.ts # cur.ts THEN t.ts > cur.ts
    ELSE IF t.tx # cur.tx THEN StrLess(cur.tx, t.tx)
    ELSE FALSE

\* A comparison of the standalone loop that also keeps the row at the cursor.
cursor_is_newer_or_same(cur, last) ==
    cur = last \/ PosLess(last, cur)

\* cursor_is_newer(cur, last) of the standalone loop.
cursor_is_newer(cur, last) ==
    IF cur.ts # last.ts THEN cur.ts > last.ts
    ELSE IF cur.tx # last.tx THEN StrLess(last.tx, cur.tx)
    ELSE cur.li > last.li

\* ------------------------------------------------------------ dedup engine

\* The loop "for trade in trades: if newer: new_trades.append(trade)".
RECURSIVE FilterNewerMgr(_, _)
FilterNewerMgr(trades, cur) ==
    IF trades = <<>> THEN <<>>
    ELSE IF is_newer(Head(trades), cur)
         THEN <<Head(trades)>> \o FilterNewerMgr(Tail(trades), cur)
         ELSE FilterNewerMgr(Tail(trades), cur)

RECURSIVE FilterNewerMain(_, _)
FilterNewerMain(items, last) ==
    IF items = <<>> THEN <<>>
    ELSE IF cursor_is_newer(trade_ptr(Head(items)), last)
         THEN <<Head(items)>> \o FilterNewerMain(Tail(items), last)
         ELSE FilterNewerMain(Tail(items), last)

\* list.reverse()
Reverse(s) == [i \in 1..Len(s) |-> s[Len(s) + 1 - i]]

\* new_trades of _process_trades_for_subscription, as it is replayed.
NewTradesMgr(trades, cur) == Reverse(FilterNewerMgr(trades, cur))

\* new_trades of async_main, as it is replayed.
NewTradesMain(items, last) == Reverse(FilterNewerMain(items, last))

\* ------------------------------------------------------------------- state

VARIABLES
    mode,           \* "manager" (bot.py + CopytradingManager) or "standalone" (main.py)
    feed,           \* [Wallets -> Seq(row)]: every trade of a wallet, oldest first
    clientOk,       \* [Users -> BOOLEAN]: get_user_client(user) returns a client
    heap,           \* manager: the CopySubscription objects, by object id
    subscriptions,  \* manager: self.subscriptions, in dict order: [user, wallet, oid]
    subsFile,       \* manager: copytrading_subs.json
    cursors,        \* standalone: the cursors dict of async_main
    cursorsFile,    \* standalone: last_seen.json
    loop,           \* the poll loop's position and locals
    result,         \* the outcome of the last mirror attempt
    placed,         \* ledger of the exchange: orders filled per (user, wallet, trade)
    cycleFailed,    \* (user, wallet, trade) whose attempt failed in the running cycle
    noClient,       \* (user, wallet, trade) that failed for want of a client, the
                    \* user having had none ever since
    fetched,        \* manager: the wallets whose feed the running cycle fetched
    reply,          \* manager: the last registry operation and what it returned
    dedup,          \* the dedup step checked on its own: input, cursor, output
    _running,       \* manager: self._running
    _poll_task,     \* manager: self._poll_task, an index of tasks (0: None)
    tasks           \* manager: the tasks created for _poll_loop, by index

envVars == <<feed, clientOk>>
mgrVars == <<heap, subscriptions, subsFile>>
mainVars == <<cursors, cursorsFile>>
histVars == <<placed, cycleFailed, noClient, fetched>>
vars == <<mode, feed, clientOk, heap, subscriptions, subsFile, cursors,
          cursorsFile, loop, result, placed, cycleFailed, noClient, fetched,
          reply, dedup, _running, _poll_task, tasks>>

\* The scheduling state of the manager: _running, _poll_task (0 for None)
\* and the tasks made by asyncio.create_task(self._poll_loop(interval)).
pollVars == <<_running, _poll_task, tasks>>

\* A task of _poll_loop: where it is suspended ("created": not run yet,
\* "callback": in "await self.on_mirror_complete(result)", "sleep": in
\* asyncio.sleep(interval), "done") and whether cancel() was called on it.
NewTask == [at |-> "created", cancelled |-> FALSE]

\* The loop asleep between two cycles, no locals alive.
IdleLoop ==
    [pc |-> "idle", wallet_to_subs |-> <<>>, wallet |-> "", subs |-> <<>>,
     trades |-> <<>>, new_trades |-> <<>>, ti |-> 0]

\* No registry operation has been called yet. A reply keeps the operation,
\* the wallet string it was called with (arg), the key it used (wallet), what
\* it returned (ok; subscribe always returns the subscription) and the
\* number of calls so far.
NoReply ==
    [op |-> "", user |-> 0, arg |-> "", wallet |-> "", ok |-> FALSE, n |-> 0]

\* The outcome of a mirror attempt: what the caller gets (success, error,
\* executed_amount), for whom and for which trade, and what the attempt did
\* at the exchange: the orders it submitted (side, token, amount: USDC cents
\* for a buy, hundredths of a share for a sell), whether one was submitted
\* and executed, and the text of the exception the submission raised.
NoResult ==
    [success |-> FALSE, error |-> "", executed_amount |-> 0, called |-> FALSE,
     filled |-> FALSE, raised |-> "", user |-> OwnUser, wallet |-> "",
     trade |-> 0, orders |-> <<>>]

DedupOff == [pc |-> "off", who |-> "", batch |-> <<>>, cursor |-> ZeroCursor,
             out |-> <<>>]

OrderKeys == (Users \cup {OwnUser}) \X Wallets \X (1..MaxTrades)

\* Orders the exchange filled for a key of the ledger, and the ledger after
\* one more (the ledger stops counting at two).
Placed(k) == IF k \in DOMAIN placed THEN placed[k] ELSE 0

OneMore(k) ==
    [x \in DOMAIN placed \cup {k} |-> IF x = k THEN Placed(k) + 1 ELSE placed[x]]

\* int(time.time()): the clock of the process, which ticks with every call
\* of a registry operation and reads 1 when the first call comes.
time_time == reply.n + 1

\* CopySubscription(user_id, target_wallet, target_name, scale_factor): the
\* dataclass defaults give enabled = True, created_at = int(time.time()) and
\* the zero cursor.
CopySubscription(user, wallet, name, scale) ==
    [user_id |-> user, target_wallet |-> wallet, target_name |-> name,
     scale_factor |-> scale, enabled |-> TRUE, created_at |-> time_time,
     cursor |-> ZeroCursor]

\* CopySubscription.to_dict / from_dict on the fields the loop uses.
to_dict(sub) ==
    [user_id |-> sub.user_id, target_wallet |-> sub.target_wallet,
     target_name |-> sub.target_name,
     scale_factor |-> sub.scale_factor, enabled |-> sub.enabled,
     created_at |-> sub.created_at,
     last_seen_ts |-> sub.cursor.ts, last_seen_tx |-> sub.cursor.tx,
     last_seen_li |-> sub.cursor.li]

from_dict(d) ==
    [user_id |-> d.user_id, target_wallet |-> d.target_wallet,
     target_name |-> d.target_name,
     scale_factor |-> d.scale_factor, enabled |-> d.enabled,
     created_at |-> d.created_at,
     cursor |-> [ts |-> d.last_seen_ts, tx |-> d.last_seen_tx,
                 li |-> d.last_seen_li]]

\* What _save_subscriptions writes: every subscription, in dict order.
Serialized(subs, objs) == [i \in 1..Len(subs) |-> to_dict(objs[subs[i].oid])]

\* How a save ends. Both savers open the file with mode "w", which truncates
\* it, then json.dump into it, and log any exception: the file is written in
\* full; or open() raises and the file stays as it was ("failed"); or the
\* dump raises, or the process dies, after the truncation ("torn").
SaveOutcomes == {"written", "failed", "torn"}

\* A truncated or partial copytrading_subs.json: json.load raises in
\* _load_subscriptions, the exception is logged, nothing is loaded.
TornSubsFile == [exists |-> TRUE, data |-> <<>>]

\* A truncated or partial last_seen.json: load_cursors returns {} and
\* cursors.get(wallet, (0, "", 0)) gives every wallet the zero cursor.
TornCursorsFile == [w \in TARGETS |-> ZeroCursor]

\* The file after _save_subscriptions(), by how the save ends.
_save_subscriptions(file, subs, objs, out) ==
    CASE out = "written" -> [exists |-> TRUE, data |-> Serialized(subs, objs)]
      [] out = "failed" -> file
      [] out = "torn" -> TornSubsFile

\* The file after save_cursors(cursors), by how the save ends.
save_cursors(file, cur, out) ==
    CASE out = "written" -> cur
      [] out = "failed" -> file
      [] out = "torn" -> TornCursorsFile

\* The loop asleep, nothing attempted, fetched or called yet: polling was
\* started once (start_copytrading_polling of the bot) and `loop` is the
\* position of that one task.
InitQuiet ==
    /\ loop = IdleLoop
    /\ result = NoResult
    /\ placed = <<>>
    /\ cycleFailed = {}
    /\ noClient = {}
    /\ fetched = <<>>
    /\ reply = NoReply
    /\ _running = TRUE
    /\ _poll_task = 1
    /\ tasks = <<[NewTask EXCEPT !.at = "sleep"]>>

InitCommon ==
    /\ feed = [w \in Wallets |-> <<>>]
    /\ InitQuiet

\* One subscriber copying one wallet, or the standalone loop on its target.
Init ==
    /\ InitCommon
    /\ mode \in {"manager", "standalone"}
    /\ clientOk = [u \in Users |-> u = 1]
    /\ \E sc \in ScaleFactors :
         /\ heap = IF mode = "manager"
                   THEN <<CopySubscription(1, "w1", "whale", sc)>> ELSE <<>>
         /\ subscriptions = IF mode = "manager"
                            THEN <<[user |-> 1, wallet |-> "w1", oid |-> 1]>>
                            ELSE <<>>
         /\ subsFile = IF mode = "manager"
                       THEN [exists |-> TRUE,
                             data |-> <<to_dict(CopySubscription(
                                                  1, "w1", "whale", sc))>>]
                       ELSE [exists |-> FALSE, data |-> <<>>]
    /\ cursors = [w \in TARGETS |-> ZeroCursor]
    /\ cursorsFile = [w \in TARGETS |-> ZeroCursor]
    /\ dedup = DedupOff

\* ------------------------------------------------------------- environment

\* The source wallet w trades: a new row at the end of its history. Rows of
\* one second may carry any tx hashes; the Data API gives no log_index.
SourceTrade(w) ==
    /\ Len(feed[w]) < MaxTrades
    /\ \/ mode = "standalone" /\ w \in TARGETS
       \/ mode = "manager"
          /\ \E i \in 1..Len(subscriptions) : subscriptions[i].wallet = w
    /\ \E sh \in TradeShapes, tx \in TxHashes, ts \in 1..MaxTs :
         /\ IF feed[w] = <<>> THEN ts = 1
            ELSE ts \in {feed[w][Len(feed[w])].ts, feed[w][Len(feed[w])].ts + 1}
         /\ feed' = [feed EXCEPT ![w] =
                Append(@, [id |-> Len(feed[w]) + 1, ts |-> ts, tx |-> tx,
                           li |-> 0, side |-> sh.side, amount |-> sh.amount,
                           price |-> sh.price, token |-> "tok"])]
    /\ UNCHANGED <<mode, pollVars, reply, clientOk, mgrVars, mainVars, loop, result, histVars,
                   dedup>>

\* A fetch without its limit: the whole history, newest first.
WholeHistory(rows, n) == [i \in 1..Len(rows) |-> rows[Len(rows) + 1 - i]]

\* GET /trades?user=w&limit=n: the n most recent rows, newest first.
Window(rows, n) ==
    LET k == IF Len(rows) < n THEN Len(rows) ELSE n
    IN  [i \in 1..k |-> rows[Len(rows) + 1 - i]]

\* Trade.from_data_api(row): value = price * amount; no log_index is kept.
from_data_api(row) ==
    [id |-> row.id, ts |-> row.ts, tx |-> row.tx, li |-> 0, side |-> row.side,
     amount |-> row.amount, price |-> row.price, tokenId |-> row.token,
     value |-> row.price * row.amount]

\* PolymarketClient.fetch_wallet_trades(wallet, limit): [] on any error.
fetch_wallet_trades(rows, ok) ==
    IF ok THEN [i \in 1..Len(Window(rows, FetchLimit)) |->
                    from_data_api(Window(rows, FetchLimit)[i])]
    ELSE <<>>

\* fetch_trades_for_user(user, limit): the rows as they come, [] on any error.
fetch_trades_for_user(rows, ok) ==
    IF ok THEN Window(rows, FetchLimit) ELSE <<>>

\* A user links or deletes the wallet (create_user_wallet, delete_user_wallet),
\* which get_user_polymarket_client reads on every call. The handlers run on
\* the bot's event loop, so only while the poll loop is suspended.
ClientChange(u) ==
    /\ mode = "manager"
    /\ loop.pc \in {"idle", "notify"}
    /\ \E i \in 1..Len(subscriptions) : subscriptions[i].user = u
    /\ clientOk' = [clientOk EXCEPT ![u] = ~@]
    /\ noClient' = {k \in noClient : k[1] # u}
    /\ UNCHANGED <<mode, pollVars, reply, feed, mgrVars, mainVars, loop, result, placed,
                   cycleFailed, fetched, dedup>>

\* ----------------------------------------------------------- the manager

\* "client.buy(trade.token_id, scaled_value)" and "client.sell(trade.token_id,
\* amount_usdc=scaled_value)": PolymarketClient defines neither buy nor sell
\* (and Trade has tokenId, no token_id), so the expression raises
\* AttributeError before any order is submitted.
ClientCall(trade) ==
    [kind |-> "raise",
     text |-> IF trade.side = "BUY"
              THEN "'PolymarketClient' object has no attribute 'buy'"
              ELSE "'PolymarketClient' object has no attribute 'sell'"]

\* scaled_value = trade.value * sub.scale_factor
scaled_value(trade, sub) == (trade.value * sub.scale_factor) \div 100

\* CopytradingManager._mirror_trade(sub, trade), with what get_user_client
\* returned (hasClient). The value the order call returns is not looked at.
_mirror_trade(sub, trade, hasClient) ==
    LET base == [NoResult EXCEPT !.user = sub.user_id,
                                 !.wallet = sub.target_wallet,
                                 !.trade = trade.id]
        out == ClientCall(trade)
    IN  IF ~hasClient
        THEN [base EXCEPT !.error = "User client not available"]
        ELSE IF scaled_value(trade, sub) < MinOrderCents
        THEN [base EXCEPT !.success = TRUE,
                          !.error = "Skipped (below minimum)"]
        ELSE IF out.kind = "raise"
        THEN [base EXCEPT !.raised = out.text, !.error = out.text]
        ELSE [base EXCEPT !.success = TRUE, !.called = TRUE,
                          !.filled = (out.kind = "filled"),
                          !.executed_amount = scaled_value(trade, sub),
                          !.orders = <<[side |-> trade.side,
                                        token |-> trade.tokenId,
                                        amount |-> scaled_value(trade, sub)]>>]

\* CopySubscription.update_cursor(trade)
update_cursor(sub, trade) ==
    [sub EXCEPT !.cursor = [ts |-> trade.ts, tx |-> trade.tx, li |-> 0]]

\* A loop that advances whatever the attempt returned.
AdvanceAlways(res) == res.success \/ ~res.success

\* "if result.success:" -- the cursor-advance decision of both loops.
ShouldAdvance(res) == res.success

\* A grouping that forgets to merge: one group per enabled subscription.
GroupPerSubscription(entries, objs, acc) ==
    LET on == SelectSeq(entries, LAMBDA e : objs[e.oid].enabled)
    IN  acc \o [i \in 1..Len(on) |->
                  [wallet |-> objs[on[i].oid].target_wallet,
                   subs |-> <<on[i].oid>>]]

\* A grouping that forgets the enabled flag: every subscription, by wallet.
GroupAllSubscriptions(entries, objs, acc) ==
    LET wallet_of(i) == objs[entries[i].oid].target_wallet
        firsts == SelectSeq([i \in 1..Len(entries) |-> i],
                            LAMBDA i : \A j \in 1..(i - 1) :
                                          wallet_of(j) # wallet_of(i))
        of_wallet(w) == SelectSeq(entries,
                                  LAMBDA e : objs[e.oid].target_wallet = w)
    IN  acc \o [k \in 1..Len(firsts) |->
                  [wallet |-> wallet_of(firsts[k]),
                   subs |-> [j \in 1..Len(of_wallet(wallet_of(firsts[k]))) |->
                               of_wallet(wallet_of(firsts[k]))[j].oid]]]

\* wallet_to_subs of _poll_all_subscriptions: the enabled subscriptions
\* grouped by target wallet, wallets and subscriptions in dict order.
RECURSIVE GroupByWallet(_, _, _)
GroupByWallet(entries, objs, acc) ==
    IF entries = <<>> THEN acc
    ELSE LET sub == objs[Head(entries).oid]
             at == {i \in 1..Len(acc) : acc[i].wallet = sub.target_wallet}
         IN  IF ~sub.enabled
             THEN GroupByWallet(Tail(entries), objs, acc)
             ELSE IF at # {}
             THEN GroupByWallet(Tail(entries), objs,
                    [i \in 1..Len(acc) |->
                        IF i \in at
                        THEN [acc[i] EXCEPT !.subs = Append(@, Head(entries).oid)]
                        ELSE acc[i]])
             ELSE GroupByWallet(Tail(entries), objs,
                    Append(acc, [wallet |-> sub.target_wallet,
                                 subs |-> <<Head(entries).oid>>]))

\* A loop without its handlers: the exception ends the task.
LoopDies(l) == [IdleLoop EXCEPT !.pc = "dead"]

\* The loop "for wallet, subs in wallet_to_subs.items()" moves on (after the
\* wallet's work, a "continue" or a logged exception), or the cycle ends and
\* _poll_loop sleeps.
NextWallet(l) ==
    IF Len(l.wallet_to_subs) > 1
    THEN [IdleLoop EXCEPT !.pc = "fetch", !.wallet_to_subs = Tail(l.wallet_to_subs)]
    ELSE IdleLoop

\* The loop "for sub in subs" moves on.
NextSub(l) ==
    IF Len(l.subs) > 1
    THEN [l EXCEPT !.pc = "process", !.subs = Tail(l.subs),
                   !.new_trades = <<>>, !.ti = 0]
    ELSE NextWallet(l)

\* The loop "for trade in new_trades" moves on.
NextTrade(l) ==
    IF l.ti < Len(l.new_trades)
    THEN [l EXCEPT !.pc = "mirror", !.ti = l.ti + 1]
    ELSE IF mode = "manager" THEN NextSub(l) ELSE IdleLoop

\* _poll_loop wakes up: _poll_all_subscriptions builds wallet_to_subs.
MgrPollAll ==
    /\ mode = "manager"
    /\ loop.pc = "idle"
    /\ LET groups == GroupByWallet(subscriptions, heap, <<>>)
       IN  loop' = IF groups = <<>> THEN IdleLoop
                   ELSE [IdleLoop EXCEPT !.pc = "fetch", !.wallet_to_subs = groups]
    /\ cycleFailed' = {}
    /\ fetched' = <<>>
    /\ UNCHANGED <<mode, pollVars, reply, envVars, mgrVars, mainVars, result, placed, noClient,
                   dedup>>

\* trades = fetch_wallet_trades(wallet, limit=50); "if not trades: continue".
MgrFetch ==
    /\ mode = "manager"
    /\ loop.pc = "fetch"
    /\ LET item == Head(loop.wallet_to_subs)
       IN  \E ok \in BOOLEAN :
             LET trades == fetch_wallet_trades(feed[item.wallet], ok)
             IN  loop' = IF trades = <<>> THEN NextWallet(loop)
                         ELSE [loop EXCEPT !.pc = "process",
                                           !.wallet = item.wallet,
                                           !.subs = item.subs,
                                           !.trades = trades]
    /\ cycleFailed' = IF loop'.pc = "idle" THEN {} ELSE cycleFailed
    /\ fetched' = IF loop'.pc = "idle" THEN <<>>
                  ELSE Append(fetched, Head(loop.wallet_to_subs).wallet)
    /\ UNCHANGED <<mode, pollVars, reply, envVars, mgrVars, mainVars, result, placed,
                   noClient, dedup>>

\* _process_trades_for_subscription, up to the replay loop: filter by the
\* cursor, return when nothing is new, reverse.
MgrProcess ==
    /\ mode = "manager"
    /\ loop.pc = "process"
    /\ LET new_trades == NewTradesMgr(loop.trades, heap[Head(loop.subs)].cursor)
       IN  loop' = IF new_trades = <<>> THEN NextSub(loop)
                   ELSE [loop EXCEPT !.pc = "mirror",
                                     !.new_trades = new_trades, !.ti = 1]
    /\ cycleFailed' = IF loop'.pc = "idle" THEN {} ELSE cycleFailed
    /\ fetched' = IF loop'.pc = "idle" THEN <<>> ELSE fetched
    /\ UNCHANGED <<mode, pollVars, reply, envVars, mgrVars, mainVars, result, placed, noClient,
                   dedup>>

\* result = await self._mirror_trade(sub, trade). Its first statement,
\* client = self.get_user_client(sub.user_id), stands before the try block:
\* get_user_client is a callable handed to the manager, and when it raises,
\* the exception leaves _mirror_trade, _process_trades_for_subscription and
\* the loop "for sub in subs", and is logged by the "except Exception" of the
\* loop over the wallets, which goes on with the next wallet.
MgrMirror ==
    /\ mode = "manager"
    /\ loop.pc = "mirror"
    /\ \/ LET sub == heap[Head(loop.subs)]
              trade == loop.new_trades[loop.ti]
              key == <<sub.user_id, sub.target_wallet, trade.id>>
              res == _mirror_trade(sub, trade, clientOk[sub.user_id])
          IN  /\ result' = res
              /\ placed' = IF res.filled /\ Placed(key) < 2
                           THEN OneMore(key) ELSE placed
              /\ cycleFailed' = IF res.success THEN cycleFailed
                                ELSE cycleFailed \cup {key}
              /\ fetched' = fetched
              /\ noClient' = IF clientOk[sub.user_id] THEN noClient
                             ELSE noClient \cup {key}
              /\ loop' = [loop EXCEPT !.pc = "advance"]
       \/ /\ loop' = NextWallet(loop)
          /\ result' = NoResult
          /\ cycleFailed' = IF loop'.pc = "idle" THEN {} ELSE cycleFailed
          /\ fetched' = IF loop'.pc = "idle" THEN <<>> ELSE fetched
          /\ UNCHANGED <<placed, noClient>>
    /\ UNCHANGED <<mode, pollVars, reply, envVars, mgrVars, mainVars, dedup>>

\* "if result.success: sub.update_cursor(trade); self._save_subscriptions()".
\* The save writes the whole registry, or fails and is only logged.
MgrAdvance ==
    /\ mode = "manager"
    /\ loop.pc = "advance"
    /\ IF ShouldAdvance(result)
       THEN /\ heap' = [heap EXCEPT ![Head(loop.subs)] =
                            update_cursor(@, loop.new_trades[loop.ti])]
            /\ \E out \in SaveOutcomes :
                 subsFile' = _save_subscriptions(subsFile, subscriptions,
                                                 heap', out)
       ELSE UNCHANGED <<heap, subsFile>>
    /\ loop' = [loop EXCEPT !.pc = "notify"]
    /\ UNCHANGED <<mode, pollVars, reply, envVars, subscriptions, mainVars, result, histVars,
                   dedup>>

\* "await self.on_mirror_complete(result)": an exception of the callback is
\* logged; then the next trade, subscription or wallet (result is a local of
\* the loop body).
MgrNotify ==
    /\ mode = "manager"
    /\ loop.pc = "notify"
    /\ loop' = NextTrade(loop)
    /\ result' = NoResult
    /\ cycleFailed' = IF loop'.pc = "idle" THEN {} ELSE cycleFailed
    /\ fetched' = IF loop'.pc = "idle" THEN <<>> ELSE fetched
    /\ UNCHANGED <<mode, pollVars, reply, envVars, mgrVars, mainVars, placed, noClient,
                   dedup>>

\* The bot process dies at any point and is started again:
\* CopytradingManager.__init__ loads the registry from the file.
MgrRestart ==
    /\ mode = "manager"
    /\ heap' = [i \in 1..Len(subsFile.data) |-> from_dict(subsFile.data[i])]
    /\ subscriptions' = [i \in 1..Len(subsFile.data) |->
                            [user |-> subsFile.data[i].user_id,
                             wallet |-> subsFile.data[i].target_wallet,
                             oid |-> i]]
    /\ loop' = IdleLoop
    /\ result' = NoResult
    /\ cycleFailed' = {}
    /\ fetched' = <<>>
    /\ UNCHANGED <<mode, pollVars, reply, envVars, subsFile, mainVars, placed, noClient,
                   dedup>>

\* -------------------------------------------- the registry operations
\* subscribe, unsubscribe, set_subscription_enabled and update_scale_factor
\* are synchronous methods called from the bot's handlers: they run while the
\* poll loop is suspended, asleep or awaiting the callback.

HandlerCanRun ==
    /\ mode = "manager"
    /\ loop.pc \in {"idle", "notify"}
    /\ reply.n < MaxCalls

\* The wallet strings a caller passes, and wallet.lower().
WalletInputs == Wallets \cup {"W1"}

lower(w) == IF w = "W1" THEN "w1" ELSE w

\* The scale factors a caller passes, in percent.
ScaleInputs == {100, 300}

\* The friendly names a caller gives a wallet.
NameInputs == {"whale", "shark"}

\* A lookup that forgets the wallet: the first subscription of the user.
FirstOfUser(subs, user, wallet) ==
    IF \E i \in 1..Len(subs) : subs[i].user = user
    THEN CHOOSE i \in 1..Len(subs) :
             /\ subs[i].user = user
             /\ \A j \in 1..(i - 1) : subs[j].user # user
    ELSE 0

\* The place of (user, wallet) in self.subscriptions, 0 when it has none.
IndexOf(subs, user, wallet) ==
    IF \E i \in 1..Len(subs) : subs[i].user = user /\ subs[i].wallet = wallet
    THEN CHOOSE i \in 1..Len(subs) :
             subs[i].user = user /\ subs[i].wallet = wallet
    ELSE 0

\* A registry that keeps the entry a pair already has (setdefault).
KeepItem(subs, user, wallet, oid) ==
    IF IndexOf(subs, user, wallet) # 0 THEN subs
    ELSE Append(subs, [user |-> user, wallet |-> wallet, oid |-> oid])

\* A registry kept as a list: every subscribe adds an entry.
AppendItem(subs, user, wallet, oid) ==
    Append(subs, [user |-> user, wallet |-> wallet, oid |-> oid])

\* self.subscriptions[user_id][wallet] = sub, in dict order: an existing key
\* keeps its place, a new wallet comes last in the dict of its user, a new
\* user comes last.
SetItem(subs, user, wallet, oid) ==
    LET e == [user |-> user, wallet |-> wallet, oid |-> oid]
        i == IndexOf(subs, user, wallet)
        mine == {j \in 1..Len(subs) : subs[j].user = user}
        last == IF mine = {} THEN Len(subs)
                ELSE CHOOSE j \in mine : \A k \in mine : k <= j
    IN  IF i # 0 THEN [subs EXCEPT ![i] = e]
        ELSE SubSeq(subs, 1, last) \o <<e>> \o SubSeq(subs, last + 1, Len(subs))

\* A deletion that takes every subscription of the user with it.
DelAllOfUser(subs, i) == SelectSeq(subs, LAMBDA e : e.user # subs[i].user)

\* del self.subscriptions[user_id][wallet] (and the user's dict when empty).
DelItem(subs, i) == SubSeq(subs, 1, i - 1) \o SubSeq(subs, i + 1, Len(subs))

\* subscribe(user_id, wallet, name, scale_factor): a new CopySubscription,
\* zero cursor, put in the registry (replacing the pair's old one), saved.
Subscribe(user, w, name, scale) ==
    /\ HandlerCanRun
    /\ Len(heap) < MaxObjects
    /\ LET wallet == lower(w)
       IN  /\ heap' = Append(heap, CopySubscription(user, wallet, name, scale))
           /\ subscriptions' = SetItem(subscriptions, user, wallet,
                                       Len(heap) + 1)
           /\ reply' = [op |-> "subscribe", user |-> user, arg |-> w,
                        wallet |-> wallet, ok |-> TRUE, n |-> reply.n + 1]
    /\ \E out \in SaveOutcomes :
         subsFile' = _save_subscriptions(subsFile, subscriptions', heap', out)
    /\ UNCHANGED <<mode, pollVars, envVars, mainVars, loop, result, histVars, dedup>>

\* unsubscribe(user_id, wallet): False when the pair is not subscribed, else
\* the pair is deleted, the registry saved, True.
Unsubscribe(user, w) ==
    /\ HandlerCanRun
    /\ LET wallet == lower(w)
           i == IndexOf(subscriptions, user, wallet)
       IN  /\ reply' = [op |-> "unsubscribe", user |-> user,
                        arg |-> w, wallet |-> wallet, ok |-> i # 0,
                        n |-> reply.n + 1]
           /\ IF i = 0 THEN UNCHANGED <<subscriptions, subsFile>>
              ELSE /\ subscriptions' = DelItem(subscriptions, i)
                   /\ \E out \in SaveOutcomes :
                        subsFile' = _save_subscriptions(subsFile,
                                        subscriptions', heap, out)
    /\ UNCHANGED <<mode, pollVars, envVars, heap, mainVars, loop, result, histVars,
                   dedup>>

\* set_subscription_enabled(user_id, wallet, enabled)
SetEnabled(user, w, enabled) ==
    /\ HandlerCanRun
    /\ LET wallet == lower(w)
           i == IndexOf(subscriptions, user, wallet)
       IN  /\ reply' = [op |-> "set_subscription_enabled", user |-> user,
                        arg |-> w, wallet |-> wallet, ok |-> i # 0,
                        n |-> reply.n + 1]
           /\ IF i = 0 THEN UNCHANGED <<heap, subsFile>>
              ELSE /\ heap' = [heap EXCEPT
                                 ![subscriptions[i].oid].enabled = enabled]
                   /\ \E out \in SaveOutcomes :
                        subsFile' = _save_subscriptions(subsFile,
                                        subscriptions, heap', out)
    /\ UNCHANGED <<mode, pollVars, envVars, subscriptions, mainVars, loop, result,
                   histVars, dedup>>

\* update_scale_factor(user_id, wallet, scale_factor)
UpdateScale(user, w, scale) ==
    /\ HandlerCanRun
    /\ LET wallet == lower(w)
           i == IndexOf(subscriptions, user, wallet)
       IN  /\ reply' = [op |-> "update_scale_factor", user |-> user,
                        arg |-> w, wallet |-> wallet, ok |-> i # 0,
                        n |-> reply.n + 1]
           /\ IF i = 0 THEN UNCHANGED <<heap, subsFile>>
              ELSE /\ heap' = [heap EXCEPT
                                 ![subscriptions[i].oid].scale_factor = scale]
                   /\ \E out \in SaveOutcomes :
                        subsFile' = _save_subscriptions(subsFile,
                                        subscriptions, heap', out)
    /\ UNCHANGED <<mode, pollVars, envVars, subscriptions, mainVars, loop, result,
                   histVars, dedup>>

\* A registry operation is called.
RegistryOp ==
    \E user \in Users, w \in WalletInputs :
        \/ \E name \in NameInputs, scale \in ScaleInputs :
              Subscribe(user, w, name, scale)
        \/ Unsubscribe(user, w)
        \/ \E enabled \in BOOLEAN : SetEnabled(user, w, enabled)
        \/ \E scale \in ScaleInputs : UpdateScale(user, w, scale)

\* ----------------------------------------------------- the standalone loop

\* What clob().post_order returns or does: the fields _parse_order_response
\* reads, and whether the exchange executed the order.
ClobOutcomes ==
    { [kind |-> "matched",   success |-> TRUE,  orderID |-> "0x1",
       status |-> "matched",   executed |-> TRUE,  text |-> ""],
      [kind |-> "rejected",  success |-> FALSE, orderID |-> "",
       status |-> "",          executed |-> FALSE, text |-> ""],
      [kind |-> "cancelled", success |-> FALSE, orderID |-> "",
       status |-> "cancelled", executed |-> FALSE, text |-> ""],
      [kind |-> "none",      success |-> FALSE, orderID |-> "",
       status |-> "",          executed |-> FALSE, text |-> ""],
      [kind |-> "raise",     success |-> FALSE, orderID |-> "",
       status |-> "",          executed |-> FALSE,
       text |-> "Connection timed out"] }

\* Best bid of the token's order book in cents; 0 stands for None.
BestBids == {0, 40}

\* _parse_order_response(resp): resp is None, or a dict (a rejection is the
\* dict {"success": False, "errorMsg": ...}, which is not empty).
_parse_order_response(resp) ==
    IF resp.kind = "none" THEN FALSE
    ELSE IF resp.success THEN TRUE
    ELSE IF resp.orderID # "" THEN TRUE
    ELSE IF resp.status = "matched" \/ resp.status = "filled" THEN TRUE
    ELSE IF resp.status = "cancelled" THEN FALSE
    ELSE TRUE

\* What an order helper did when it never reached post_order.
NotSubmitted ==
    [ok |-> FALSE, called |-> FALSE, filled |-> FALSE, raised |-> "",
     orders |-> <<>>]

\* What an order helper did when it called post_order with the order.
Submitted(order, out) ==
    IF out.kind = "raise"
    THEN [ok |-> FALSE, called |-> TRUE, filled |-> FALSE, raised |-> out.text,
          orders |-> <<order>>]
    ELSE [ok |-> _parse_order_response(out), called |-> TRUE,
          filled |-> out.executed, raised |-> "", orders |-> <<order>>]

\* market_buy_notional(token_id, notional_usdc): the bool it returns (ok),
\* the order it posted (amount = the notional in USDC), whether the exchange
\* executed it, and the text of the exception post_order raised ("except
\* Exception as e: ... return False").
market_buy_notional(token, notional, out) ==
    IF notional <= 0
    THEN NotSubmitted
    ELSE Submitted([side |-> "BUY", token |-> token, amount |-> notional], out)

\* market_sell_notional(token_id, notional_usdc): shares = notional / best_bid.
market_sell_notional(token, notional, best_bid, out) ==
    IF notional <= 0
    THEN NotSubmitted
    ELSE IF best_bid <= 0
    THEN NotSubmitted
    ELSE IF (notional * 100) \div best_bid <= 0
    THEN NotSubmitted
    ELSE Submitted([side |-> "SELL", token |-> token,
                    amount |-> (notional * 100) \div best_bid], out)

\* mirror_trade(t) of main.py: (success, error_message).
mirror_trade(t, wallet, best_bid, out) ==
    LET base == [NoResult EXCEPT !.wallet = wallet, !.trade = t.id]
        notional == (t.amount * t.price * TRADE_SCALE) \div 100
        order == IF t.side = "BUY"
                 THEN market_buy_notional(t.token, notional, out)
                 ELSE market_sell_notional(t.token, notional, best_bid, out)
    IN  IF t.token = ""
        THEN [base EXCEPT !.error = "Missing token_id"]
        ELSE IF t.amount <= 0
        THEN [base EXCEPT !.error = "Invalid shares amount"]
        ELSE IF t.price <= 0
        THEN [base EXCEPT !.error = "Invalid price"]
        ELSE IF notional <= 0
        THEN [base EXCEPT !.error = "Notional too small after scaling"]
        ELSE IF order.ok
        THEN [base EXCEPT !.success = TRUE, !.called = order.called,
                          !.filled = order.filled,
                          !.executed_amount = notional,
                          !.orders = order.orders]
        ELSE [base EXCEPT !.error = "Order execution failed",
                          !.called = order.called, !.filled = order.filled,
                          !.raised = order.raised, !.orders = order.orders]

TargetWallet == CHOOSE w \in TARGETS : TRUE

\* One pass of "for wallet, name in TARGETS.items()" up to the replay loop:
\* fetch, "if not items: continue", filter by the cursor, reverse.
MainSweep ==
    /\ mode = "standalone"
    /\ loop.pc = "idle"
    /\ \E ok \in BOOLEAN :
         LET items == fetch_trades_for_user(feed[TargetWallet], ok)
             new_trades == NewTradesMain(items, cursors[TargetWallet])
         IN  loop' = IF new_trades = <<>> THEN IdleLoop
                     ELSE [IdleLoop EXCEPT !.pc = "mirror",
                                           !.wallet = TargetWallet,
                                           !.trades = items,
                                           !.new_trades = new_trades,
                                           !.ti = 1]
    /\ cycleFailed' = {}
    /\ fetched' = <<>>
    /\ UNCHANGED <<mode, pollVars, reply, envVars, mgrVars, mainVars, result, placed, noClient,
                   dedup>>

\* ok, error = mirror_trade(t)
MainMirror ==
    /\ mode = "standalone"
    /\ loop.pc = "mirror"
    /\ LET t == loop.new_trades[loop.ti]
           key == <<OwnUser, loop.wallet, t.id>>
       IN  \E out \in ClobOutcomes, bid \in BestBids :
             LET res == mirror_trade(t, loop.wallet, bid, out)
             IN  /\ result' = res
                 /\ placed' = IF res.filled /\ Placed(key) < 2
                              THEN OneMore(key) ELSE placed
                 /\ cycleFailed' = IF res.success THEN cycleFailed
                                   ELSE cycleFailed \cup {key}
                 /\ fetched' = fetched
    /\ loop' = [loop EXCEPT !.pc = "notify"]
    /\ UNCHANGED <<mode, pollVars, reply, envVars, mgrVars, mainVars, noClient, dedup>>

\* "await send_markdown(msg)": a failure to send is logged.
MainNotify ==
    /\ mode = "standalone"
    /\ loop.pc = "notify"
    /\ loop' = [loop EXCEPT !.pc = "advance"]
    /\ UNCHANGED <<mode, pollVars, reply, envVars, mgrVars, mainVars, result, histVars,
                   dedup>>

\* "if ok: cursors[wallet] = cur; save_cursors(cursors)"; the save writes
\* the whole dict, or fails and is only logged.
MainAdvance ==
    /\ mode = "standalone"
    /\ loop.pc = "advance"
    /\ IF ShouldAdvance(result)
       THEN /\ cursors' = [cursors EXCEPT ![loop.wallet] =
                              trade_ptr(loop.new_trades[loop.ti])]
            /\ \E out \in SaveOutcomes :
                 cursorsFile' = save_cursors(cursorsFile, cursors', out)
       ELSE UNCHANGED <<cursors, cursorsFile>>
    /\ loop' = NextTrade(loop)
    /\ result' = NoResult
    /\ cycleFailed' = IF loop'.pc = "idle" THEN {} ELSE cycleFailed
    /\ fetched' = IF loop'.pc = "idle" THEN <<>> ELSE fetched
    /\ UNCHANGED <<mode, pollVars, reply, envVars, mgrVars, placed, noClient, dedup>>

\* The process dies at any point and is started again: load_cursors().
MainRestart ==
    /\ mode = "standalone"
    /\ cursors' = cursorsFile
    /\ loop' = IdleLoop
    /\ result' = NoResult
    /\ cycleFailed' = {}
    /\ fetched' = <<>>
    /\ UNCHANGED <<mode, pollVars, reply, envVars, mgrVars, cursorsFile, placed,
                   noClient, dedup>>

\* ------------------------------------------------------- the specification

Next ==
    \/ \E w \in Wallets : SourceTrade(w)
    \/ \E u \in Users : ClientChange(u)
    \/ MgrPollAll
    \/ MgrFetch
    \/ MgrProcess
    \/ MgrMirror
    \/ MgrAdvance
    \/ MgrNotify
    \/ MgrRestart
    \/ MainSweep
    \/ MainMirror
    \/ MainNotify
    \/ MainAdvance
    \/ MainRestart

Spec == Init /\ [][Next]_vars

\* The same program while its process stays up: no restart.
NextSteady ==
    \/ \E w \in Wallets : SourceTrade(w)
    \/ \E u \in Users : ClientChange(u)
    \/ MgrPollAll
    \/ MgrFetch
    \/ MgrProcess
    \/ MgrMirror
    \/ MgrAdvance
    \/ MgrNotify
    \/ MainSweep
    \/ MainMirror
    \/ MainNotify
    \/ MainAdvance

SpecSteady == Init /\ [][NextSteady]_vars

\* -------------------------------------- the registry under its operations

\* A row of a wallet's history.
Row(id, ts, tx, side, amount, price) ==
    [id |-> id, ts |-> ts, tx |-> tx, li |-> 0, side |-> side,
     amount |-> amount, price |-> price, token |-> "tok"]

\* Users 1 and 2 both copy wallet w1, at 100% and at 300%, and the store
\* holds the registry; every user has a wallet; w1 has made one trade, a BUY
\* of 0.50 (below the minimum at 100%, above it at 300%).
InitRegistry ==
    /\ InitQuiet
    /\ mode = "manager"
    /\ feed = [w \in Wallets |->
                 IF w = "w1" THEN <<Row(1, 1, <<1>>, "BUY", 1, 50)>> ELSE <<>>]
    /\ clientOk = [u \in Users |-> TRUE]
    /\ heap = <<CopySubscription(1, "w1", "whale", 100),
                CopySubscription(2, "w1", "whale", 300)>>
    /\ subscriptions = <<[user |-> 1, wallet |-> "w1", oid |-> 1],
                         [user |-> 2, wallet |-> "w1", oid |-> 2]>>
    /\ subsFile = [exists |-> TRUE, data |-> Serialized(subscriptions, heap)]
    /\ cursors = [w \in TARGETS |-> ZeroCursor]
    /\ cursorsFile = [w \in TARGETS |-> ZeroCursor]
    /\ dedup = DedupOff

\* The bot with its handlers and its poll loop, restarts included.
NextRegistry ==
    \/ \E user \in Users, w \in WalletInputs, name \in NameInputs,
          scale \in ScaleInputs : Subscribe(user, w, name, scale)
    \/ \E user \in Users, w \in WalletInputs : Unsubscribe(user, w)
    \/ \E user \in Users, w \in WalletInputs, enabled \in BOOLEAN :
          SetEnabled(user, w, enabled)
    \/ \E user \in Users, w \in WalletInputs, scale \in ScaleInputs :
          UpdateScale(user, w, scale)
    \/ MgrPollAll
    \/ MgrFetch
    \/ MgrProcess
    \/ MgrMirror
    \/ MgrAdvance
    \/ MgrNotify
    \/ MgrRestart

SpecRegistry == InitRegistry /\ [][NextRegistry]_vars

\* ------------------------------------------- several subscribers, fan-out

\* User 1 copies w1 and w2, user 2 copies w1 at another scale; each
\* subscription is enabled or not, each user has a wallet or not; w1 has
\* made one or two trades and w2 none or one.
InitFanout ==
    /\ InitQuiet
    /\ mode = "manager"
    /\ \E second \in {<<>>, <<Row(2, 2, <<2>>, "SELL", 4, 50)>>},
          other \in {<<>>, <<Row(1, 1, <<1>>, "BUY", 1, 50)>>} :
         feed = [w \in Wallets |->
                   IF w = "w1"
                   THEN <<Row(1, 1, <<1>>, "BUY", 1, 50)>> \o second
                   ELSE other]
    /\ clientOk \in [Users -> BOOLEAN]
    /\ \E on \in [1..3 -> BOOLEAN] :
         heap = <<[CopySubscription(1, "w1", "whale", 100) EXCEPT !.enabled = on[1]],
                  [CopySubscription(1, "w2", "whale", 100) EXCEPT !.enabled = on[2]],
                  [CopySubscription(2, "w1", "whale", 300) EXCEPT !.enabled = on[3]]>>
    /\ subscriptions = <<[user |-> 1, wallet |-> "w1", oid |-> 1],
                         [user |-> 1, wallet |-> "w2", oid |-> 2],
                         [user |-> 2, wallet |-> "w1", oid |-> 3]>>
    /\ subsFile = [exists |-> TRUE, data |-> Serialized(subscriptions, heap)]
    /\ cursors = [w \in TARGETS |-> ZeroCursor]
    /\ cursorsFile = [w \in TARGETS |-> ZeroCursor]
    /\ dedup = DedupOff

\* The manager's poll loop, cycle after cycle.
NextFanout ==
    \/ MgrPollAll
    \/ MgrFetch
    \/ MgrProcess
    \/ MgrMirror
    \/ MgrAdvance
    \/ MgrNotify

SpecFanout == InitFanout /\ [][NextFanout]_vars

\* ------------------------------------------- the dedup step on its own

\* Positions of the rows and cursors the dedup step is tried on: two
\* seconds, three tx hashes ("", "a", "b"), two log indexes.
DedupTs == {1, 2}
DedupTx == {<<>>, <<1>>, <<2>>}
DedupLi == {0, 1}
DedupPositions == [ts : DedupTs, tx : DedupTx, li : DedupLi]

\* Row i of a batch built from a sequence of positions.
RowAt(ps, i) ==
    [id |-> i, ts |-> ps[i].ts, tx |-> ps[i].tx, li |-> ps[i].li,
     side |-> "BUY", amount |-> 4, price |-> 50, token |-> "tok"]

BatchesOfLen(n) ==
    {[i \in 1..n |-> RowAt(ps, i)] : ps \in [1..n -> DedupPositions]}

\* The Data API answers newest first: timestamps never increase along a
\* batch; rows of one second come in any order of tx hash and log index.
NewestFirst(batch) ==
    \A i \in 1..Len(batch) - 1 : batch[i].ts >= batch[i + 1].ts

\* A batch and a stored cursor: any cursor the loop can hold (the manager's
\* log index is always 0).
InitDedup ==
    /\ InitCommon
    /\ mode \in {"manager", "standalone"}
    /\ clientOk = [u \in Users |-> FALSE]
    /\ heap = <<>>
    /\ subscriptions = <<>>
    /\ subsFile = [exists |-> FALSE, data |-> <<>>]
    /\ cursors = [w \in TARGETS |-> ZeroCursor]
    /\ cursorsFile = [w \in TARGETS |-> ZeroCursor]
    /\ \E n \in 0..MaxBatch :
         \E batch \in BatchesOfLen(n), cur \in DedupPositions \cup {ZeroCursor} :
           /\ NewestFirst(batch)
           /\ mode = "manager" => cur.li = 0
           /\ dedup = [pc |-> "ready", who |-> mode, batch |-> batch,
                       cursor |-> cur, out |-> <<>>]

\* The manager's dedup step on the batch, as fetch_wallet_trades returns it.
DedupMgr ==
    /\ dedup.pc = "ready"
    /\ dedup.who = "manager"
    /\ dedup' = [dedup EXCEPT
                    !.pc = "done",
                    !.out = NewTradesMgr(
                              [i \in 1..Len(dedup.batch) |->
                                  from_data_api(dedup.batch[i])],
                              dedup.cursor)]
    /\ UNCHANGED <<mode, pollVars, reply, envVars, mgrVars, mainVars, loop, result,
                   histVars>>

\* The standalone loop's dedup step on the batch.
DedupMain ==
    /\ dedup.pc = "ready"
    /\ dedup.who = "standalone"
    /\ dedup' = [dedup EXCEPT !.pc = "done",
                              !.out = NewTradesMain(dedup.batch, dedup.cursor)]
    /\ UNCHANGED <<mode, pollVars, reply, envVars, mgrVars, mainVars, loop, result,
                   histVars>>

\* The cursor after every trade of the replay list was mirrored with
\* success: each success assigns the position of its trade (update_cursor,
\* "cursors[wallet] = cur"), in the order of the list.
RECURSIVE CursorAfterAll(_, _, _)
CursorAfterAll(who, out, cur) ==
    IF out = <<>> THEN cur
    ELSE CursorAfterAll(who, Tail(out),
                        IF who = "manager" THEN TradePos(Head(out))
                        ELSE trade_ptr(Head(out)))

\* The next cycle fetches the same batch: the dedup step runs again, with
\* the cursor the successes left.
DedupAgain ==
    /\ dedup.pc = "done"
    /\ LET cur == CursorAfterAll(dedup.who, dedup.out, dedup.cursor)
       IN  dedup' = [dedup EXCEPT
                       !.pc = "again",
                       !.cursor = cur,
                       !.out = IF dedup.who = "manager"
                               THEN NewTradesMgr(
                                      [i \in 1..Len(dedup.batch) |->
                                          from_data_api(dedup.batch[i])], cur)
                               ELSE NewTradesMain(dedup.batch, cur)]
    /\ UNCHANGED <<mode, pollVars, reply, envVars, mgrVars, mainVars, loop, result,
                   histVars>>

NextDedup == DedupMgr \/ DedupMain \/ DedupAgain

SpecDedup == InitDedup /\ [][NextDedup]_vars

\* ------------------------------------------------------------ the claims

\* The pairs (subscriber, source wallet) the running loop mirrors for.
Pairs ==
    IF mode = "manager"
    THEN {<<subscriptions[i].user, subscriptions[i].wallet>> :
              i \in 1..Len(subscriptions)}
    ELSE {<<OwnUser, w>> : w \in TARGETS}

\* The in-memory cursor of a pair.
MemCursor(pair) ==
    IF mode = "manager"
    THEN heap[subscriptions[CHOOSE i \in 1..Len(subscriptions) :
                                subscriptions[i].user = pair[1]
                                /\ subscriptions[i].wallet = pair[2]].oid].cursor
    ELSE cursors[pair[2]]

\* The position of trade i of wallet w, as the running loop reads it.
PosOfTrade(w, i) ==
    IF mode = "manager" THEN TradePos(feed[w][i]) ELSE trade_ptr(feed[w][i])

\* The pair and the trade of the mirror attempt in progress.
CurrentPair ==
    IF mode = "manager"
    THEN <<heap[Head(loop.subs)].user_id, heap[Head(loop.subs)].target_wallet>>
    ELSE <<OwnUser, loop.wallet>>

CurrentTrade == loop.new_trades[loop.ti]

\* A step of the poll loop itself.
PollStep ==
    \/ MgrPollAll \/ MgrFetch \/ MgrProcess \/ MgrMirror \/ MgrAdvance
    \/ MgrNotify \/ MainSweep \/ MainMirror \/ MainNotify \/ MainAdvance

\* The step that acts on a mirror attempt's outcome.
AdvanceStep == MgrAdvance \/ MainAdvance

\* The mirror attempt of `result` is over and its trade is still current.
AfterMirror ==
    \/ mode = "manager" /\ loop.pc \in {"advance", "notify"}
    \/ mode = "standalone" /\ loop.pc \in {"notify", "advance"}

\* C1: exactly-once mirroring -- for every subscription and every source
\* trade, over any poll cycles, batches, failures and restarts, at most one
\* order is successfully placed for that trade on behalf of the subscription.
C1_AtMostOneOrderPerTrade == \A k \in OrderKeys : Placed(k) <= 1

\* C2: no trade is skipped after a failure -- when a cycle ends, the cursor
\* of the subscription is strictly below the position of every trade whose
\* mirror attempt failed in that cycle (so the next cycle that fetches the
\* trade attempts it again), also in batches where other trades succeed.
C2_FailedTradeStaysAboveCursor ==
    [][(PollStep /\ loop.pc # "idle" /\ loop'.pc = "idle") =>
          \A k \in cycleFailed :
              <<k[1], k[2]>> \in Pairs =>
                  PosLess(MemCursor(<<k[1], k[2]>>)', PosOfTrade(k[2], k[3]))]_vars

\* C3: monotonic cursor -- every cursor value the poll loop writes for a pair
\* is greater than or equal to the value it replaces, in the order
\* (timestamp, tx_hash, log_index), whatever the batches hold.
C3_CursorNeverDecreases ==
    [][AdvanceStep =>
          \A pair \in Pairs : PosLeq(MemCursor(pair), MemCursor(pair)')]_vars

\* C4: the poll loop changes a cursor (in memory or in the store) only in the
\* step right after a mirror attempt of that subscription returned success,
\* and then sets it to the position of exactly that trade; after a failed
\* attempt the in-memory cursor and the persisted store stay as they are.
C4_CursorChangesOnlyOnSuccess ==
    [][PollStep =>
          /\ <<heap, subsFile, cursors, cursorsFile>>'
                 # <<heap, subsFile, cursors, cursorsFile>>
               => /\ loop.pc = "advance"
                  /\ result.success
                  /\ result.trade = CurrentTrade.id
                  /\ <<result.user, result.wallet>> = CurrentPair
          /\ \A pair \in Pairs :
               MemCursor(pair)' # MemCursor(pair)
                 => /\ pair = CurrentPair
                    /\ MemCursor(pair)' = PosOfTrade(pair[2], result.trade)
          /\ subsFile' # subsFile
               => subsFile' \in {[exists |-> TRUE,
                                  data |-> Serialized(subscriptions', heap')],
                                 TornSubsFile}
          /\ cursorsFile' # cursorsFile
               => cursorsFile' \in {cursors', TornCursorsFile}
          /\ (AdvanceStep /\ ~result.success)
               => UNCHANGED <<heap, subsFile, cursors, cursorsFile>>]_vars

\* C4's case: a successful mirror has just moved the cursor to its trade.
C4_Witness ==
    /\ mode = "manager"
    /\ loop.pc = "notify"
    /\ result.success
    /\ MemCursor(CurrentPair) = PosOfTrade(CurrentPair[2], result.trade)
    /\ subsFile.data[1].last_seen_ts = CurrentTrade.ts

\* The scaled notional of the attempt in `result`, in cents.
ResultScaled ==
    IF mode = "manager"
    THEN scaled_value(CurrentTrade, heap[Head(loop.subs)])
    ELSE (CurrentTrade.amount * CurrentTrade.price * TRADE_SCALE) \div 100

\* C7: benign skip -- whenever the scaled notional of a trade is below the
\* minimum order size, the mirror attempt places no order and returns
\* success with executed_amount = 0 and an explanatory note.
C7_BelowMinimumIsSkipped ==
    (AfterMirror /\ ResultScaled < MinOrderCents) =>
        /\ result.success
        /\ ~result.called
        /\ result.executed_amount = 0
        /\ result.error = "Skipped (below minimum)"

\* The trades of the fetched batch, by id.
TradeIds(trades) == {trades[i].id : i \in 1..Len(trades)}

\* C8: session unavailable -- when the resolver returns no client, the
\* attempt fails with "User client not available" and places no order, the
\* cursor does not move, and as long as the subscriber has no client the
\* trade is attempted again in every following cycle that fetches it.
C8_NoClientFailsAndIsRetried ==
    [][/\ (MgrMirror /\ ~clientOk[CurrentPair[1]] /\ loop'.pc = "advance")
            => /\ ~result'.success
               /\ result'.error = "User client not available"
               /\ ~result'.called
               /\ placed' = placed
       /\ (MgrAdvance /\ result.error = "User client not available")
            => UNCHANGED <<heap, subsFile>>
       /\ MgrProcess
            => \A k \in noClient :
                 (<<k[1], k[2]>> = CurrentPair /\ k[3] \in TradeIds(loop.trades))
                   => /\ loop'.pc = "mirror"
                      /\ k[3] \in TradeIds(loop'.new_trades)]_vars

\* C9: order rejected -- when the order submission returns without raising
\* but the order was not executed (rejected, cancelled, not filled), the
\* mirror attempt is a failure.
C9_RejectedOrderIsFailure ==
    (AfterMirror /\ result.called /\ result.raised = "" /\ ~result.filled)
        => ~result.success

\* C10: an exception raised by the order submission is caught inside the
\* mirror attempt: the attempt returns success = false with the exception
\* text as error, the loop goes on to its next step, and the cursor and the
\* store are not changed for that attempt.
C10_ExceptionBecomesFailure ==
    [][/\ ((MgrMirror \/ MainMirror) /\ result'.raised # "")
            => /\ loop'.pc \in {"advance", "notify"}
               /\ ~result'.success
               /\ result'.error = result'.raised
       /\ (AdvanceStep /\ result.raised # "")
            => UNCHANGED <<heap, subsFile, cursors, cursorsFile>>]_vars

\* The position of a row in the dedup step that runs.
DedupPos(row) ==
    IF dedup.who = "manager" THEN TradePos(row) ELSE trade_ptr(row)

\* C5: dedup selection -- the list of new trades holds exactly the fetched
\* trades whose position (timestamp, tx_hash, log_index or 0) is strictly
\* greater than the stored cursor, each of them once, and nothing else.
C5_DedupKeepsExactlyTheNewer ==
    dedup.pc = "done" =>
        /\ \A i \in 1..Len(dedup.batch) :
             Cardinality({j \in 1..Len(dedup.out) : dedup.out[j].id = i})
               = IF PosLess(dedup.cursor, DedupPos(dedup.batch[i])) THEN 1 ELSE 0
        /\ \A j \in 1..Len(dedup.out) :
             /\ dedup.out[j].id \in 1..Len(dedup.batch)
             /\ DedupPos(dedup.out[j]) = DedupPos(dedup.batch[dedup.out[j].id])

\* C5's case: of two rows of the cursor's second, the one with the greater
\* tx hash is kept and the one at the cursor is dropped.
C5_Witness ==
    /\ dedup.pc = "done"
    /\ Len(dedup.batch) = 3
    /\ Len(dedup.out) = 1
    /\ dedup.out[1].ts = dedup.cursor.ts
    /\ \E i \in 1..3 : DedupPos(dedup.batch[i]) = dedup.cursor
    /\ \E i \in 1..3 : PosLess(DedupPos(dedup.batch[i]), dedup.cursor)

\* C6: dedup ordering -- the replay list is sorted ascending by
\* (timestamp, tx_hash, log_index): trades are attempted in non-decreasing
\* position order.
C6_ReplayIsSortedAscending ==
    dedup.pc = "done" =>
        \A j \in 1..Len(dedup.out) - 1 :
            PosLeq(DedupPos(dedup.out[j]), DedupPos(dedup.out[j + 1]))

\* ------------------------------------------------------ the durable store

\* The store holds a record of the pair, and the cursor a restart would load
\* for it.
DurableHas(pair) ==
    IF mode = "manager"
    THEN \E i \in 1..Len(subsFile.data) :
             /\ subsFile.data[i].user_id = pair[1]
             /\ subsFile.data[i].target_wallet = pair[2]
    ELSE pair[2] \in DOMAIN cursorsFile

DurableCursor(pair) ==
    IF mode = "manager"
    THEN from_dict(subsFile.data[CHOOSE i \in 1..Len(subsFile.data) :
                       /\ subsFile.data[i].user_id = pair[1]
                       /\ subsFile.data[i].target_wallet = pair[2]]).cursor
    ELSE cursorsFile[pair[2]]

\* The process is started again.
RestartStep == MgrRestart \/ MainRestart

\* C11: cursor durability -- right after each successful mirror, before the
\* next trade is attempted, the durable cursor of the pair is at or beyond
\* the position of the mirrored trade, and no later step of the loop takes a
\* durable cursor back: at a crash at any point the store is at or beyond
\* every trade confirmed so far.
C11_DurableCursorCoversConfirmed ==
    [][PollStep =>
          /\ (AdvanceStep /\ result.success)
               => \A pair \in {CurrentPair} :
                      /\ DurableHas(pair)'
                      /\ PosLeq(PosOfTrade(pair[2], CurrentTrade.id),
                                DurableCursor(pair)')
          /\ \A pair \in Pairs :
               DurableHas(pair)
                 => /\ DurableHas(pair)'
                    /\ PosLeq(DurableCursor(pair), DurableCursor(pair)')]_vars

\* C12: at-least-once on crash -- when the process is started again while
\* the store misses the last cursor writes of a pair (the write failed or
\* was interrupted), the pair is still mirrored and resumes strictly below
\* its in-memory cursor, so that the trade whose write was lost is presented
\* and attempted again: nothing is lost, only possibly duplicated.
C12_LostWriteMeansRetryAfterRestart ==
    [][RestartStep =>
          \A pair \in Pairs :
              (~DurableHas(pair)
                 \/ PosLess(DurableCursor(pair), MemCursor(pair)))
                => /\ pair \in Pairs'
                   /\ PosLess(MemCursor(pair)', MemCursor(pair))]_vars

\* C13: atomic store update -- every save leaves the store holding either
\* the complete previous registry or the complete new one, whether the write
\* succeeds, fails or is interrupted.
C13_SaveIsAllOrNothing ==
    [][PollStep =>
          /\ subsFile' \in {subsFile,
                            [exists |-> TRUE,
                             data |-> Serialized(subscriptions', heap')]}
          /\ cursorsFile' \in {cursorsFile, cursors'}]_vars

\* C14: registry mutations are durable on success -- whenever subscribe,
\* unsubscribe, set_subscription_enabled or update_scale_factor returns
\* success, the store holds the registry as the operation left it, also when
\* the store write can fail.
C14_SuccessfulOperationIsInTheStore ==
    [][(RegistryOp /\ reply'.ok) =>
          subsFile' = [exists |-> TRUE,
                       data |-> Serialized(subscriptions', heap')]]_vars

\* ----------------------------------------------------- the work of a cycle

\* The (wallet, subscription object) the running cycle is working on or has
\* still before it.
Todo(l) ==
    LET groups == IF l.pc = "fetch" THEN l.wallet_to_subs
                  ELSE IF l.pc = "idle" THEN <<>>
                  ELSE Tail(l.wallet_to_subs)
    IN  UNION {{<<groups[i].wallet, groups[i].subs[j]>> :
                      j \in 1..Len(groups[i].subs)} : i \in 1..Len(groups)}
        \cup {<<l.wallet, l.subs[j]>> : j \in 1..Len(l.subs)}

\* Some enabled subscription copies wallet w.
EnabledOn(w) ==
    \E i \in 1..Len(subscriptions) :
        subscriptions[i].wallet = w /\ heap[subscriptions[i].oid].enabled

\* The wallets fetched in the running cycle, the fetch of this step included.
FetchedWith(l) ==
    IF l.pc = "fetch" THEN Append(fetched, Head(l.wallet_to_subs).wallet)
    ELSE fetched

\* C16: failure containment per subscription -- an exception raised while
\* one subscription is processed (the session resolver raises) leaves every
\* other subscription of the same wallet, and every remaining wallet, still
\* to be processed in the same cycle.
C16_ExceptionSparesTheOtherSubscriptions ==
    [][(MgrMirror /\ loop'.pc # "advance") =>
          Todo(loop) \ {<<loop.wallet, Head(loop.subs)>>} \subseteq Todo(loop')]_vars

\* C17: in each poll cycle the trade feed is fetched exactly once for every
\* wallet that has at least one enabled subscription, however many
\* subscribers it has, and never for a wallet that has none.
C17_OneFetchPerWalletPerCycle ==
    [][(PollStep /\ mode = "manager") =>
          LET F == FetchedWith(loop)
          IN  /\ \A i, j \in 1..Len(F) : F[i] = F[j] => i = j
              /\ \A i \in 1..Len(F) : EnabledOn(F[i])
              /\ loop'.pc = "idle"
                   => \A w \in Wallets :
                          EnabledOn(w) => \E i \in 1..Len(F) : F[i] = w]_vars

\* C17's case: two enabled subscribers of w1 and one of w2, both wallets
\* fetched once, the loop working for the subscriber of w2.
C17_Witness ==
    /\ fetched = <<"w1", "w2">>
    /\ loop.pc = "mirror"
    /\ Cardinality({i \in 1..Len(subscriptions) :
                       /\ subscriptions[i].wallet = "w1"
                       /\ heap[subscriptions[i].oid].enabled}) = 2

\* C18: fan-out independence -- each subscriber of a wallet gets its own
\* attempt, scaled by its own scale_factor, and a step of the loop changes
\* only the cursor of the subscription it is working for; whatever happens
\* in the attempts for one subscriber, the work for the others stays ahead
\* of the cycle.
C18_SubscribersAreIndependent ==
    [][(PollStep /\ mode = "manager" /\ loop.subs # <<>>) =>
          /\ \A pair \in Pairs :
               pair # CurrentPair => MemCursor(pair)' = MemCursor(pair)
          /\ (MgrMirror /\ loop'.pc = "advance" /\ clientOk[CurrentPair[1]])
               => (result'.error = "Skipped (below minimum)"
                     <=> (CurrentTrade.value
                            * heap[Head(loop.subs)].scale_factor) \div 100
                           < MinOrderCents)
          /\ MgrMirror
               => Todo(loop) \ {<<loop.wallet, Head(loop.subs)>>}
                     \subseteq Todo(loop')]_vars

\* --------------------------------------------------- the loop keeps going

\* The standalone loop on its target, which has made two trades.
InitSolo ==
    /\ InitQuiet
    /\ mode = "standalone"
    /\ feed = [w \in Wallets |->
                 IF w \in TARGETS
                 THEN <<Row(1, 1, <<1>>, "BUY", 1, 50),
                        Row(2, 2, <<2>>, "SELL", 4, 50)>>
                 ELSE <<>>]
    /\ clientOk = [u \in Users |-> FALSE]
    /\ heap = <<>>
    /\ subscriptions = <<>>
    /\ subsFile = [exists |-> FALSE, data |-> <<>>]
    /\ cursors = [w \in TARGETS |-> ZeroCursor]
    /\ cursorsFile = [w \in TARGETS |-> ZeroCursor]
    /\ dedup = DedupOff

InitLive == InitFanout \/ InitSolo

NextLive ==
    \/ MgrPollAll
    \/ MgrFetch
    \/ MgrProcess
    \/ MgrMirror
    \/ MgrAdvance
    \/ MgrNotify
    \/ MainSweep
    \/ MainMirror
    \/ MainNotify
    \/ MainAdvance

\* Both loops run as a task of the event loop: a statement that can run does
\* run, asyncio.sleep and the awaited notifier return.
SpecLive == InitLive /\ [][NextLive]_vars /\ WF_vars(NextLive)

\* C15: the poll loop never halts on a failure -- whatever fails inside a
\* cycle (fetch error, failed mirror, exception in a wallet or subscription,
\* notifier exception, failed store write), the loop comes back to idle; idle,
\* it can always start the next cycle, and with an enabled subscription the
\* manager fetches again and again.
C15_LoopAlwaysComesBack ==
    /\ []<>(loop.pc = "idle")
    /\ [](loop.pc = "idle" => ENABLED (MgrPollAll \/ MainSweep))
    /\ (mode = "manager" /\ \E w \in Wallets : EnabledOn(w))
          => []<>(loop.pc = "fetch")

\* C15's case: an attempt has just failed with an exception, or the resolver
\* has just raised and thrown the loop out of a wallet with work left.
C15_Witness ==
    \/ loop.pc = "advance" /\ result.raised # "" /\ ~result.success
    \/ mode = "standalone" /\ loop.pc = "notify" /\ result.raised # ""

\* ------------------------------------------- one mirror attempt on its own

\* The trades an attempt is given: notional 0.50, 2.00 or 100.00 (shares at
\* 0.50), with or without a token id.
MirrorRows ==
    {[id |-> 1, ts |-> 1, tx |-> <<1>>, li |-> 0, side |-> side,
      amount |-> amount, price |-> 50, token |-> token] :
         side \in {"BUY", "SELL"}, amount \in {1, 4, 200},
         token \in {"", "tokA", "tokB"}}

\* The scale factors of the subscription, in percent.
MirrorScales == {25, 100, 300}

\* Either loop about to mirror the one new trade of its batch.
InitMirror ==
    /\ mode \in {"manager", "standalone"}
    /\ result = NoResult
    /\ placed = <<>>
    /\ cycleFailed = {}
    /\ noClient = {}
    /\ reply = NoReply
    /\ _running = TRUE
    /\ _poll_task = 1
    /\ tasks = <<[NewTask EXCEPT !.at = "sleep"]>>
    /\ dedup = DedupOff
    /\ cursors = [w \in TARGETS |-> ZeroCursor]
    /\ cursorsFile = [w \in TARGETS |-> ZeroCursor]
    /\ \E row \in MirrorRows, scale \in MirrorScales, has \in BOOLEAN :
         /\ feed = [w \in Wallets |-> IF w = "w1" THEN <<row>> ELSE <<>>]
         /\ IF mode = "manager"
            THEN /\ heap = <<CopySubscription(1, "w1", "whale", scale)>>
                 /\ subscriptions = <<[user |-> 1, wallet |-> "w1", oid |-> 1]>>
                 /\ subsFile = [exists |-> TRUE,
                                data |-> Serialized(subscriptions, heap)]
                 /\ clientOk = [u \in Users |-> has]
                 /\ fetched = <<"w1">>
                 /\ loop = [pc |-> "mirror",
                            wallet_to_subs |-> <<[wallet |-> "w1",
                                                  subs |-> <<1>>]>>,
                            wallet |-> "w1", subs |-> <<1>>,
                            trades |-> <<from_data_api(row)>>,
                            new_trades |-> <<from_data_api(row)>>, ti |-> 1]
            ELSE /\ heap = <<>>
                 /\ subscriptions = <<>>
                 /\ subsFile = [exists |-> FALSE, data |-> <<>>]
                 /\ clientOk = [u \in Users |-> FALSE]
                 /\ fetched = <<>>
                 /\ loop = [IdleLoop EXCEPT !.pc = "mirror",
                                            !.wallet = TargetWallet,
                                            !.trades = <<row>>,
                                            !.new_trades = <<row>>, !.ti = 1]

NextMirror == MgrMirror \/ MainMirror

SpecMirror == InitMirror /\ [][NextMirror]_vars

\* The token id of a trade, as the running loop holds it.
TokenOf(t) == IF mode = "manager" THEN t.tokenId ELSE t.token

\* C19: each mirror attempt makes at most one order-placement call, and
\* exactly one when it is neither a benign skip nor a session failure; there
\* is no retry inside an attempt.
C19_OneOrderCallPerAttempt ==
    AfterMirror =>
        /\ Len(result.orders) <= 1
        /\ (/\ result.error # "Skipped (below minimum)"
            /\ result.error # "User client not available")
             => Len(result.orders) = 1

\* C20: BUY scaling -- for a BUY trade on a token whose scaled notional is at
\* or above the minimum, the attempt (unless the subscriber has no session)
\* submits one market buy on the trade's token for the quote amount trade
\* notional * scale_factor (100.00 at 0.25 gives 25.00).
C20_BuyIsScaledNotional ==
    (/\ AfterMirror
     /\ CurrentTrade.side = "BUY"
     /\ TokenOf(CurrentTrade) # ""
     /\ ResultScaled >= MinOrderCents
     /\ result.error # "User client not available")
        => result.orders = <<[side |-> "BUY", token |-> TokenOf(CurrentTrade),
                              amount |-> ResultScaled]>>

\* The sell orders market_sell_notional can post for a notional: one per
\* positive best bid, amount = notional / best_bid (hundredths of a share).
SellOrdersFor(token, notional) ==
    {[side |-> "SELL", token |-> token, amount |-> (notional * 100) \div bid] :
         bid \in {b \in BestBids : b > 0}}

\* C21: SELL conversion -- for a SELL trade (on a token, scaled notional at or
\* above the minimum, subscriber with a session) the attempt submits one
\* market sell in shares, shares = scaled notional / best bid of the token;
\* when there is no positive best bid no order is placed and the attempt is
\* a failure.
C21_SellIsNotionalOverBestBid ==
    (/\ AfterMirror
     /\ CurrentTrade.side = "SELL"
     /\ TokenOf(CurrentTrade) # ""
     /\ ResultScaled >= MinOrderCents
     /\ result.error # "User client not available")
        => \/ /\ Len(result.orders) = 1
              /\ result.orders[1]
                   \in SellOrdersFor(TokenOf(CurrentTrade), ResultScaled)
           \/ /\ result.orders = <<>>
              /\ ~result.success
              /\ result.raised = ""

\* ------------------------------------------------ the keys of the registry

\* The registry of InitRegistry between two cycles of the loop: user 1 at the
\* zero cursor or past the trade of w1 (mirrored as a skip), user 2 at zero.
InitKeys ==
    /\ InitQuiet
    /\ mode = "manager"
    /\ feed = [w \in Wallets |->
                 IF w = "w1" THEN <<Row(1, 1, <<1>>, "BUY", 1, 50)>> ELSE <<>>]
    /\ clientOk = [u \in Users |-> TRUE]
    /\ \E cur \in {ZeroCursor, TradePos(Row(1, 1, <<1>>, "BUY", 1, 50))} :
         heap = <<[CopySubscription(1, "w1", "whale", 100) EXCEPT !.cursor = cur],
                  CopySubscription(2, "w1", "whale", 300)>>
    /\ subscriptions = <<[user |-> 1, wallet |-> "w1", oid |-> 1],
                         [user |-> 2, wallet |-> "w1", oid |-> 2]>>
    /\ subsFile = [exists |-> TRUE, data |-> Serialized(subscriptions, heap)]
    /\ cursors = [w \in TARGETS |-> ZeroCursor]
    /\ cursorsFile = [w \in TARGETS |-> ZeroCursor]
    /\ dedup = DedupOff

\* The handlers of the bot call the registry, and the process is restarted.
NextKeys ==
    \/ \E user \in Users, w \in WalletInputs, name \in NameInputs,
          scale \in ScaleInputs : Subscribe(user, w, name, scale)
    \/ \E user \in Users, w \in WalletInputs : Unsubscribe(user, w)
    \/ \E user \in Users, w \in WalletInputs, enabled \in BOOLEAN :
          SetEnabled(user, w, enabled)
    \/ \E user \in Users, w \in WalletInputs, scale \in ScaleInputs :
          UpdateScale(user, w, scale)
    \/ MgrRestart

SpecKeys == InitKeys /\ [][NextKeys]_vars

\* The places of the registry that stand for (user, wallet) when wallet
\* strings are compared without their letter case.
PlacesOf(subs, user, w) ==
    {i \in 1..Len(subs) : subs[i].user = user /\ lower(subs[i].wallet) = lower(w)}

\* C22: after any sequence of subscribe, unsubscribe,
\* set_subscription_enabled, update_scale_factor and restart the registry
\* holds at most one subscription per (subscriber, lower-cased wallet), filed
\* under the lower-cased wallet; an operation called with a wallet string in
\* any letter case looks up, replaces or removes that one subscription.
C22_OneSubscriptionPerLowerCasedPair ==
    /\ [](mode = "manager" =>
            \A i \in 1..Len(subscriptions) :
                /\ PlacesOf(subscriptions, subscriptions[i].user,
                            subscriptions[i].wallet) = {i}
                /\ subscriptions[i].wallet = lower(subscriptions[i].wallet)
                /\ heap[subscriptions[i].oid].user_id = subscriptions[i].user
                /\ heap[subscriptions[i].oid].target_wallet
                     = subscriptions[i].wallet)
    /\ [][RegistryOp =>
            LET before == PlacesOf(subscriptions, reply'.user, reply'.arg)
                after == PlacesOf(subscriptions', reply'.user, reply'.arg)
            IN  /\ reply'.wallet = lower(reply'.arg)
                /\ reply'.op = "subscribe" => Cardinality(after) = 1
                /\ reply'.op # "subscribe" => (reply'.ok <=> before # {})
                /\ reply'.op = "unsubscribe" => after = {}
                /\ reply'.op \in {"set_subscription_enabled",
                                  "update_scale_factor"} => after = before]_vars

\* C22's case: user 1 has subscribed again to the wallet and holds one
\* subscription, filed under "w1"; then an operation called with "W1" has
\* found the subscription of user 2.
C22_Witness ==
    /\ reply.n = 2
    /\ reply.arg = "W1"
    /\ reply.op \in {"set_subscription_enabled", "update_scale_factor"}
    /\ reply.user = 2
    /\ reply.ok
    /\ Len(heap) = 3
    /\ heap[3].user_id = 1
    /\ PlacesOf(subscriptions, 1, "W1") = {1}
    /\ subscriptions[1].oid = 3
    /\ Len(subscriptions) = 2

\* C23: re-subscribe -- subscribe for a pair the registry already holds
\* replaces the entry in its place: the registry keeps its length, the pair's
\* subscription carries the name and the scale_factor of this call, and its
\* cursor is the zero cursor (0, "", 0).
C23_ResubscribeReplacesAndResets ==
    [][\A user \in Users, w \in WalletInputs, name \in NameInputs,
          scale \in ScaleInputs :
            (Subscribe(user, w, name, scale)
               /\ PlacesOf(subscriptions, user, w) # {})
              => /\ Len(subscriptions') = Len(subscriptions)
                 /\ PlacesOf(subscriptions', user, w)
                      = PlacesOf(subscriptions, user, w)
                 /\ \A i \in PlacesOf(subscriptions', user, w) :
                      /\ subscriptions'[i].oid # subscriptions[i].oid
                      /\ heap'[subscriptions'[i].oid].user_id = user
                      /\ heap'[subscriptions'[i].oid].target_wallet = lower(w)
                      /\ heap'[subscriptions'[i].oid].target_name = name
                      /\ heap'[subscriptions'[i].oid].scale_factor = scale
                      /\ heap'[subscriptions'[i].oid].cursor = ZeroCursor]_vars

\* C23's case: user 1, who copied w1 as "whale" at 100% and had the cursor
\* past a trade, has subscribed again as "shark" at 300%.
C23_Witness ==
    /\ reply.op = "subscribe"
    /\ reply.n = 1
    /\ Len(heap) = 3
    /\ heap[1].cursor # ZeroCursor
    /\ heap[1].target_name = "whale"
    /\ heap[1].scale_factor = 100
    /\ subscriptions[1] = [user |-> 1, wallet |-> "w1", oid |-> 3]
    /\ heap[3].target_name = "shark"
    /\ heap[3].scale_factor = 300
    /\ heap[3].cursor = ZeroCursor

\* ------------------------------------------------------------- shutdown

\* stop_polling(): _running = False, the task is cancelled and awaited. The
\* CancelledError is delivered where the task is suspended: in
\* asyncio.sleep(interval), or in "await self.on_mirror_complete(result)"
\* (the fetch, _mirror_trade, update_cursor and _save_subscriptions never
\* yield to the event loop); it is no Exception, so no handler of the loop
\* catches it and the task ends.
StopPolling ==
    /\ mode = "manager"
    /\ loop.pc \in {"idle", "notify"}
    /\ loop' = [loop EXCEPT !.pc = "stopped"]
    /\ UNCHANGED <<mode, pollVars, reply, envVars, mgrVars, mainVars, result, histVars,
                   dedup>>

\* main(): loop.run_until_complete(async_main()) ends with KeyboardInterrupt
\* ("Copytrader stopped by user"). The interrupt is raised wherever the main
\* thread stands: in the sleep, before mirror_trade, while the task awaits
\* send_markdown(msg), or between the send and "if ok:"; no handler of
\* async_main catches it (it is no Exception) and the task is left where it
\* was.
MainInterrupt ==
    /\ mode = "standalone"
    /\ loop.pc \in {"idle", "mirror", "notify", "advance"}
    /\ loop' = [loop EXCEPT !.pc = "stopped"]
    /\ UNCHANGED <<mode, pollVars, reply, envVars, mgrVars, mainVars, result, histVars,
                   dedup>>

\* Either loop at work, and stopped at some point.
NextStop ==
    \/ MgrPollAll
    \/ MgrFetch
    \/ MgrProcess
    \/ MgrMirror
    \/ MgrAdvance
    \/ MgrNotify
    \/ MainSweep
    \/ MainMirror
    \/ MainNotify
    \/ MainAdvance
    \/ StopPolling
    \/ MainInterrupt

SpecStop == InitLive /\ [][NextStop]_vars

\* C24: shutdown does not cut a mirror attempt in half -- when the loop has
\* been stopped or cancelled and the last attempt submitted an order
\* successfully, the cursor of the pair already stands at that trade.
C24_StopKeepsOrderAndCursorTogether ==
    (loop.pc = "stopped" /\ result.success /\ result.called)
        => MemCursor(<<result.user, result.wallet>>)
             = PosOfTrade(result.wallet, result.trade)

\* ------------------------------------------------------- notifications

\* The callback bot.py hands to the manager: the message it sends for a
\* result ("" when it returns without sending). A failure to send is logged
\* inside the callback.
on_mirror_complete(res) ==
    IF res.success /\ res.executed_amount > 0 THEN "Copytraded!"
    ELSE IF res.error # "" THEN "Copytrade Failed"
    ELSE ""

\* The step that hands the outcome of the attempt to the notifier:
\* "await self.on_mirror_complete(result)", "await send_markdown(msg)".
NotifyStep == MgrNotify \/ MainNotify

\* The step that makes the mirror attempt.
MirrorStep == MgrMirror \/ MainMirror

\* C25: exactly one notification per mirror attempt -- every attempt ends
\* with an outcome that is handed to the notifier once, after the attempt and
\* before the next one; whatever the notifier does (it may raise), the step
\* changes no cursor and no store, and the loop goes on with the next trade.
C25_OneNotificationPerAttempt ==
    [][PollStep =>
          /\ MirrorStep
               => /\ loop'.pc \in {"advance", "notify"}
                  /\ result'.trade = CurrentTrade.id
                  /\ <<result'.user, result'.wallet>> = CurrentPair
          /\ (MgrAdvance \/ MainMirror)
               => /\ loop'.pc = "notify"
                  /\ loop'.ti = loop.ti
          /\ NotifyStep
               => /\ result.trade = CurrentTrade.id
                  /\ <<result.user, result.wallet>> = CurrentPair
                  /\ UNCHANGED <<heap, subscriptions, subsFile, cursors,
                                 cursorsFile, placed>>
                  /\ loop' = IF mode = "manager" THEN NextTrade(loop)
                             ELSE [loop EXCEPT !.pc = "advance"]
          /\ (MgrNotify \/ MainAdvance)
               => /\ loop'.pc # "notify"
                  /\ loop'.pc = "mirror"
                       => (loop'.ti = 1 \/ loop'.ti = loop.ti + 1)]_vars

\* C26: a benign skip is not shown as a failure -- when the attempt was
\* skipped for a scaled notional below the minimum (success, nothing
\* executed), the message the notifier sends to the subscriber is not the
\* failed-copytrade message.
C26_SkipIsNotShownAsFailure ==
    (/\ mode = "manager"
     /\ loop.pc = "notify"
     /\ result.success
     /\ result.executed_amount = 0)
        => on_mirror_complete(result) # "Copytrade Failed"

\* ------------------------------------------------- a fetch with nothing new

\* Every trade of the batch is at or below the cursor.
NothingNew(trades, cur) ==
    \A i \in 1..Len(trades) :
        PosLeq(IF mode = "manager" THEN TradePos(trades[i])
               ELSE trade_ptr(trades[i]), cur)

\* C27: a fetch that fails or returns no trades, and a fetch whose trades are
\* all at or below the cursor, is a no-op: no attempt is made and no order
\* placed, nothing is handed to the notifier, no cursor changes and nothing
\* is written to the store, for every subscription of the wallet; and the
\* next cycle fetches the wallet again.
C27_NothingNewIsANoOp ==
    [][PollStep =>
          /\ (MgrFetch /\ loop'.pc # "process")
               => /\ loop' = NextWallet(loop)
                  /\ \A e \in Todo(loop') :
                         e[1] # Head(loop.wallet_to_subs).wallet
                  /\ UNCHANGED <<heap, subscriptions, subsFile, placed, result>>
          /\ (MgrProcess
                /\ NothingNew(loop.trades, heap[Head(loop.subs)].cursor))
               => /\ loop' = NextSub(loop)
                  /\ UNCHANGED <<heap, subscriptions, subsFile, placed, result>>
          /\ (MainSweep
                /\ NothingNew(Window(feed[TargetWallet], FetchLimit),
                              cursors[TargetWallet]))
               => /\ loop' = IdleLoop
                  /\ UNCHANGED <<cursors, cursorsFile, placed, result>>
          /\ (MainSweep /\ loop'.pc # "mirror")
               => /\ loop' = IdleLoop
                  /\ UNCHANGED <<cursors, cursorsFile, placed, result>>
          /\ MgrPollAll
               => \A w \in Wallets :
                      EnabledOn(w)
                        => \E i \in 1..Len(loop'.wallet_to_subs) :
                               loop'.wallet_to_subs[i].wallet = w]_vars

\* C27's case: the cursor of the subscriber in turn stands at a trade, the
\* batch just fetched for its wallet holds nothing above it, and another
\* subscriber of the wallet comes after.
C27_Witness ==
    /\ mode = "manager"
    /\ loop.pc = "process"
    /\ Len(loop.subs) = 2
    /\ loop.trades # <<>>
    /\ heap[Head(loop.subs)].cursor # ZeroCursor
    /\ NothingNew(loop.trades, heap[Head(loop.subs)].cursor)

\* C28: idempotence under replay -- after every new trade of a batch was
\* mirrored with success, the dedup step run again on the same batch with
\* the resulting cursor gives the empty list, for any batch.
C28_ReplayOfMirroredBatchIsEmpty ==
    dedup.pc = "again" => dedup.out = <<>>

\* ---------------------------------------------- the comparison on its own

\* Three rows of the Data API at any three positions.
InitOrder ==
    /\ InitCommon
    /\ mode \in {"manager", "standalone"}
    /\ clientOk = [u \in Users |-> FALSE]
    /\ heap = <<>>
    /\ subscriptions = <<>>
    /\ subsFile = [exists |-> FALSE, data |-> <<>>]
    /\ cursors = [w \in TARGETS |-> ZeroCursor]
    /\ cursorsFile = [w \in TARGETS |-> ZeroCursor]
    /\ \E batch \in BatchesOfLen(3) :
         dedup = [pc |-> "rows", who |-> mode, batch |-> batch,
                  cursor |-> ZeroCursor, out |-> <<>>]

\* Is row i newer than row j, for the loop that runs: the manager compares
\* the Trade built from row i, self._is_newer(trade, sub.cursor), with the
\* cursor update_cursor leaves after row j; the standalone loop compares
\* cursor_is_newer(trade_ptr(row i), cursors[wallet]) with the cursor
\* trade_ptr(row j).
Compare ==
    /\ dedup.pc = "rows"
    /\ dedup' = [dedup EXCEPT
                   !.pc = "compared",
                   !.out = [i \in 1..3 |-> [j \in 1..3 |->
                       IF dedup.who = "manager"
                       THEN is_newer(from_data_api(dedup.batch[i]),
                                     update_cursor(
                                        CopySubscription(1, "w1", "whale", 100),
                                        from_data_api(dedup.batch[j])).cursor)
                       ELSE cursor_is_newer(trade_ptr(dedup.batch[i]),
                                            trade_ptr(dedup.batch[j]))]]]
    /\ UNCHANGED <<mode, pollVars, reply, envVars, mgrVars, mainVars, loop, result,
                   histVars>>

NextOrder == Compare

SpecOrder == InitOrder /\ [][NextOrder]_vars

\* C29: the newer-than comparison is the strict lexicographic order on
\* (timestamp, tx_hash, log_index) -- irreflexive, transitive, total, with
\* log_index deciding when timestamp and tx_hash tie -- and the manager's
\* _is_newer answers as the standalone loop's cursor_is_newer does.
C29_NewerIsTheStrictLexicographicOrder ==
    dedup.pc = "compared" =>
        LET P(i) == trade_ptr(dedup.batch[i])
            newer(i, j) == dedup.out[i][j]
        IN  /\ \A i \in 1..3 : ~newer(i, i)
            /\ \A i, j, k \in 1..3 :
                   (newer(i, j) /\ newer(j, k)) => newer(i, k)
            /\ \A i, j \in 1..3 :
                   P(i) # P(j) => (newer(i, j) \/ newer(j, i))
            /\ \A i, j \in 1..3 :
                   (P(i).ts = P(j).ts /\ P(i).tx = P(j).tx)
                     => (newer(i, j) <=> P(i).li > P(j).li)
            /\ \A i, j \in 1..3 : newer(i, j) <=> PosLess(P(j), P(i))
            /\ \A i, j \in 1..3 :
                   newer(i, j)
                     <=> cursor_is_newer(trade_ptr(dedup.batch[i]),
                                         trade_ptr(dedup.batch[j]))

\* ---------------------------------------------------------- end to end

\* C30: end to end -- the new trades of a batch are attempted in the order
\* of their timestamps (a BUY followed later by a SELL: BUY, then SELL), and
\* after a batch in which every new trade was mirrored with success the
\* cursor of the pair equals the greatest position in the batch (the SELL's
\* position in the example).
C30_CursorEndsAtGreatestPosition ==
    [][PollStep =>
          /\ (MgrProcess \/ MainSweep)
               => \A i, j \in 1..Len(loop'.new_trades) :
                      i < j => loop'.new_trades[i].ts <= loop'.new_trades[j].ts
          /\ (/\ AdvanceStep
              /\ result.success
              /\ loop.ti = Len(loop.new_trades)
              /\ \A k \in cycleFailed : <<k[1], k[2]>> # CurrentPair)
               => \A pair \in {CurrentPair} :
                      /\ \A i \in 1..Len(loop.new_trades) :
                             PosLeq(PosOfTrade(pair[2], loop.new_trades[i].id),
                                    MemCursor(pair)')
                      /\ \E i \in 1..Len(loop.new_trades) :
                             MemCursor(pair)'
                               = PosOfTrade(pair[2], loop.new_trades[i].id)]_vars

\* ------------------------------------------------ the restart round trip

\* The registry as the process holds it: the subscriptions in their order.
Registry(subs, objs) == [i \in 1..Len(subs) |-> objs[subs[i].oid]]

\* The registry that _load_subscriptions builds from a file.
Loaded(file) == [i \in 1..Len(file.data) |-> from_dict(file.data[i])]

\* C31: restart round trip -- the store only ever changes to a full copy of
\* the registry of that moment (so it holds the registry of the last
\* successful save), and a restart loads from it a registry equal to the one
\* saved, for every pair and every field: name, scale_factor, enabled,
\* created_at and the three cursor components.
C31_RestartLoadsLastSave ==
    [][/\ subsFile' # subsFile
          => /\ subsFile'.exists
             /\ Loaded(subsFile') = Registry(subscriptions', heap')
       /\ MgrRestart
          => /\ Registry(subscriptions', heap') = Loaded(subsFile)
             /\ \A i \in 1..Len(subsFile.data) :
                  to_dict(heap'[subscriptions'[i].oid]) = subsFile.data[i]]_vars

\* ------------------------------------------------ disabled subscriptions

\* The pairs the running cycle still has to process: the subscriptions of
\* its wallet_to_subs that it has not left yet.
SweepPairs(l) == {<<heap[x[2]].user_id, x[1]>> : x \in Todo(l)}

\* The subscription the registry holds for a pair.
Entry(pair) ==
    heap[subscriptions[IndexOf(subscriptions, pair[1], pair[2])].oid]

\* An action of the poll loop for a pair: an attempt, a notification, an
\* order filled or a change of its cursor.
ActsOn(pair) ==
    \/ MirrorStep /\ result'.user = pair[1] /\ result'.wallet = pair[2]
    \/ NotifyStep /\ result.user = pair[1] /\ result.wallet = pair[2]
    \/ \E t \in 1..MaxTrades :
          (IF <<pair[1], pair[2], t>> \in DOMAIN placed'
           THEN placed'[<<pair[1], pair[2], t>>] ELSE 0)
            # Placed(<<pair[1], pair[2], t>>)
    \/ Entry(pair)' # Entry(pair)

\* The subscriptions of InitFanout, each enabled or not, every user with a
\* wallet; w1 and w2 have made one trade each.
InitEnabled ==
    /\ InitQuiet
    /\ mode = "manager"
    /\ feed = [w \in Wallets |->
                 IF w = "w1" THEN <<Row(1, 1, <<1>>, "BUY", 1, 50)>>
                 ELSE <<Row(1, 1, <<1>>, "SELL", 4, 50)>>]
    /\ clientOk = [u \in Users |-> TRUE]
    /\ \E on \in [1..3 -> BOOLEAN] :
         heap = <<[CopySubscription(1, "w1", "whale", 100) EXCEPT !.enabled = on[1]],
                  [CopySubscription(1, "w2", "whale", 100) EXCEPT !.enabled = on[2]],
                  [CopySubscription(2, "w1", "whale", 300) EXCEPT !.enabled = on[3]]>>
    /\ subscriptions = <<[user |-> 1, wallet |-> "w1", oid |-> 1],
                         [user |-> 1, wallet |-> "w2", oid |-> 2],
                         [user |-> 2, wallet |-> "w1", oid |-> 3]>>
    /\ subsFile = [exists |-> TRUE, data |-> Serialized(subscriptions, heap)]
    /\ cursors = [w \in TARGETS |-> ZeroCursor]
    /\ cursorsFile = [w \in TARGETS |-> ZeroCursor]
    /\ dedup = DedupOff

\* The poll loop while the users switch their subscriptions off and on
\* (toggle_copy_subscription of the bot).
NextEnabled ==
    \/ \E user \in Users, w \in WalletInputs, enabled \in BOOLEAN :
          SetEnabled(user, w, enabled)
    \/ MgrPollAll
    \/ MgrFetch
    \/ MgrProcess
    \/ MgrMirror
    \/ MgrAdvance
    \/ MgrNotify

SpecEnabled == InitEnabled /\ [][NextEnabled]_vars

\* C32: only enabled subscriptions are processed -- a cycle takes up no
\* subscription that is disabled when it starts and takes up none later, and
\* it acts on no pair it has not taken up: no attempt, no order, no
\* notification, no change of cursor for a pair disabled for the whole
\* cycle; set_subscription_enabled leaves the cursor (and all but the
\* flag) as it was, so re-enabling resumes from the cursor held before.
C32_DisabledIsNotProcessed ==
    [][/\ MgrPollAll
          => \A pair \in Pairs :
               ~Entry(pair).enabled => pair \notin SweepPairs(loop')
       /\ (PollStep /\ ~MgrPollAll) => SweepPairs(loop') \subseteq SweepPairs(loop)
       /\ PollStep => \A pair \in Pairs \ SweepPairs(loop) : ~ActsOn(pair)
       /\ (\E user \in Users, w \in WalletInputs, enabled \in BOOLEAN :
              SetEnabled(user, w, enabled))
          => /\ subscriptions' = subscriptions
             /\ \A pair \in Pairs :
                  Entry(pair)' = [Entry(pair) EXCEPT
                                    !.enabled = Entry(pair).enabled']]_vars

\* A trade of w1 that is new for the disabled subscription of a user is
\* being mirrored for the other subscriber of w1.
C32_Witness ==
    /\ mode = "manager"
    /\ loop.pc = "notify"
    /\ \E pair \in Pairs \ SweepPairs(loop) :
         /\ ~Entry(pair).enabled
         /\ pair[2] = loop.wallet
         /\ is_newer(CurrentTrade, Entry(pair).cursor)

\* ------------------------------------------------ the fetch window

\* Histories of w1 up to two trades longer than the fetch window: purchases
\* of $0.50 with timestamps that do not fall and any tx hashes.
WindowFeeds ==
    UNION {{[i \in 1..n |-> Row(i, ts[i], tx[i], "BUY", 1, 50)] :
               ts \in {f \in [1..n -> 1..MaxTs] :
                          \A i \in 1..(n - 1) : f[i] <= f[i + 1]},
               tx \in [1..n -> TxHashes]} : n \in 1..(FetchLimit + 2)}

\* Users 1 and 2 copy w1 at 100% (every trade is below the minimum and is
\* skipped with success) and at 300% (every trade is ordered); user 1 is at
\* the zero cursor or has mirrored the first trade of w1.
InitWindow ==
    /\ InitQuiet
    /\ mode = "manager"
    /\ \E rows \in WindowFeeds :
         feed = [w \in Wallets |-> IF w = "w1" THEN rows ELSE <<>>]
    /\ clientOk = [u \in Users |-> TRUE]
    /\ \E cur \in {ZeroCursor, TradePos(feed["w1"][1])} :
         heap = <<[CopySubscription(1, "w1", "whale", 100) EXCEPT !.cursor = cur],
                  CopySubscription(2, "w1", "whale", 300)>>
    /\ subscriptions = <<[user |-> 1, wallet |-> "w1", oid |-> 1],
                         [user |-> 2, wallet |-> "w1", oid |-> 2]>>
    /\ subsFile = [exists |-> TRUE, data |-> Serialized(subscriptions, heap)]
    /\ cursors = [w \in TARGETS |-> ZeroCursor]
    /\ cursorsFile = [w \in TARGETS |-> ZeroCursor]
    /\ dedup = DedupOff

SpecWindow == InitWindow /\ [][NextFanout]_vars

\* The trades of wallet w that are older than the fetch window.
BeyondWindow(w) == {i \in 1..Len(feed[w]) : i <= Len(feed[w]) - FetchLimit}

\* C33: fetch-window boundary -- a fetch gives the newest trades of the
\* wallet, at most the fetch limit, newest first, and only these are
\* considered: no trade older than the window is attempted for any
\* subscription; a success on a trade of the window moves the cursor to that
\* trade, which is later than every trade older than the window, and no
\* result and no failure of the cycle is about a trade older than the window.
C33_OnlyTheWindowIsConsidered ==
    [][PollStep =>
          /\ (MgrFetch /\ loop'.pc = "process")
               => /\ Len(loop'.trades) <= FetchLimit
                  /\ \A i \in 1..Len(loop'.trades) :
                       loop'.trades[i].id = Len(feed[loop'.wallet]) + 1 - i
          /\ MgrProcess
               => TradeIds(loop'.new_trades) \subseteq TradeIds(loop.trades)
          /\ (MgrMirror /\ loop'.pc = "advance")
               => /\ result'.trade \in TradeIds(loop.trades)
                  /\ result'.trade \notin BeyondWindow(loop.wallet)
          /\ (MgrAdvance /\ result.success)
               => \A pair \in {CurrentPair} :
                    /\ MemCursor(pair)' = TradePos(CurrentTrade)
                    /\ \A i \in BeyondWindow(loop.wallet) : i < CurrentTrade.id
          /\ result'.trade \notin BeyondWindow("w1")
          /\ \A k \in cycleFailed' : k[3] \notin BeyondWindow(k[2])]_vars

\* The first of the new trades of the window was mirrored with success, the
\* cursor is about to move to it, and a trade older than the window is still
\* newer than the cursor: it was never fetched.
C33_Witness ==
    /\ mode = "manager"
    /\ loop.pc = "advance"
    /\ loop.ti = 1
    /\ result.success
    /\ \E i \in BeyondWindow(loop.wallet) :
         is_newer(from_data_api(feed[loop.wallet][i]), MemCursor(CurrentPair))

\* ------------------------------------------------ the scheduler

\* CopytradingManager.__init__: _running = False, _poll_task = None; the
\* registry of InitRegistry was loaded.
InitSched ==
    /\ mode = "manager"
    /\ loop = IdleLoop
    /\ result = NoResult
    /\ placed = <<>>
    /\ cycleFailed = {}
    /\ noClient = {}
    /\ fetched = <<>>
    /\ reply = NoReply
    /\ _running = FALSE
    /\ _poll_task = 0
    /\ tasks = <<>>
    /\ feed = [w \in Wallets |->
                 IF w = "w1" THEN <<Row(1, 1, <<1>>, "BUY", 1, 50)>> ELSE <<>>]
    /\ clientOk = [u \in Users |-> TRUE]
    /\ heap = <<CopySubscription(1, "w1", "whale", 100),
                CopySubscription(2, "w1", "whale", 300)>>
    /\ subscriptions = <<[user |-> 1, wallet |-> "w1", oid |-> 1],
                         [user |-> 2, wallet |-> "w1", oid |-> 2]>>
    /\ subsFile = [exists |-> TRUE, data |-> Serialized(subscriptions, heap)]
    /\ cursors = [w \in TARGETS |-> ZeroCursor]
    /\ cursorsFile = [w \in TARGETS |-> ZeroCursor]
    /\ dedup = DedupOff

\* start_polling(): "if self._running: return" (with a warning); else
\* _running = True and a new task of _poll_loop. Nothing is awaited.
start_polling ==
    /\ mode = "manager"
    /\ IF _running THEN UNCHANGED pollVars
       ELSE /\ Len(tasks) < MaxTasks
            /\ _running' = TRUE
            /\ tasks' = Append(tasks, NewTask)
            /\ _poll_task' = Len(tasks) + 1
    /\ UNCHANGED <<mode, reply, envVars, mgrVars, mainVars, loop, result,
                   histVars, dedup>>

\* stop_polling(): _running = False; "if self._poll_task:" the task is
\* cancelled (no effect on a task that is done) and awaited.
stop_polling ==
    /\ mode = "manager"
    /\ _running' = FALSE
    /\ tasks' = IF _poll_task = 0 \/ tasks[_poll_task].at = "done" THEN tasks
                ELSE [tasks EXCEPT ![_poll_task].cancelled = TRUE]
    /\ UNCHANGED <<mode, _poll_task, reply, envVars, mgrVars, mainVars, loop,
                   result, histVars, dedup>>

\* A cancelled task that would swallow the CancelledError at its await.
Swallowed(task) == FALSE

\* The CancelledError of cancel() is thrown into the task where it is
\* suspended; it is a BaseException, which no "except Exception" of
\* _poll_loop, _poll_all_subscriptions or _process_trades_for_subscription
\* catches, so the task ends.
Delivered(task) == task.cancelled

\* The task can make a mirror attempt when the event loop runs it next.
CanAttempt(task) ==
    /\ ~Delivered(task)
    /\ \/ task.at = "callback"
       \/ task.at \in {"created", "sleep"} /\ _running

\* The event loop runs task t up to its next suspension point: a cancelled
\* task ends; "while self._running" ends the task at its first run or after
\* the sleep; a sweep goes up to the callback of its next mirror attempt, or
\* to the sleep when nothing (more) is attempted.
_poll_loop(t) ==
    /\ mode = "manager"
    /\ tasks[t].at # "done"
    /\ \E next \in {"callback", "sleep"} :
         tasks' = [tasks EXCEPT ![t].at =
                      IF Delivered(tasks[t]) THEN "done"
                      ELSE IF tasks[t].at = "callback" THEN next
                      ELSE IF _running THEN next ELSE "done"]
    /\ UNCHANGED <<mode, _running, _poll_task, reply, envVars, mgrVars,
                   mainVars, loop, result, histVars, dedup>>

NextSched ==
    \/ start_polling
    \/ stop_polling
    \/ \E t \in 1..Len(tasks) : _poll_loop(t)

SpecSched == InitSched /\ [][NextSched]_vars

\* C34: single scheduler -- over every sequence and interleaving of
\* start_polling and stop_polling calls with the runs of the tasks, at most
\* one task of _poll_loop can make mirror attempts at any time (so no two
\* attempts for one pair come from two loops), and start_polling while
\* _running is set creates no task.
C34_AtMostOneLoopAttempts ==
    /\ [](Cardinality({t \in 1..Len(tasks) : CanAttempt(tasks[t])}) <= 1)
    /\ [][(start_polling /\ _running) => UNCHANGED pollVars]_vars

\* stop_polling and then start_polling were called while the first task was
\* suspended in the callback of a mirror attempt: the first task is
\* cancelled and not yet run again, the second is in a sweep of its own.
C34_Witness ==
    /\ Len(tasks) >= 2
    /\ tasks[1].at = "callback"
    /\ tasks[1].cancelled
    /\ tasks[2].at = "callback"
    /\ ~tasks[2].cancelled
    /\ _running

\* ------------------------------------------------ calls during a sweep

\* The registry holds the pair and its subscription is enabled.
Active(pair) == pair \in Pairs /\ Entry(pair).enabled

C36_AdvanceGoesToTheRegistryEntry ==
    [][(MgrAdvance /\ result.success)
          => \A pair \in {CurrentPair} :
               /\ pair \in Pairs
               /\ Entry(pair)'.cursor = TradePos(CurrentTrade)]_vars

\* ------------------------------------------------ calls for a missing pair

\* The step is a call of unsubscribe, set_subscription_enabled or
\* update_scale_factor.
MutationCall ==
    /\ reply'.n # reply.n
    /\ \/ Unsubscribe(reply'.user, reply'.arg)
       \/ \E enabled \in BOOLEAN :
             SetEnabled(reply'.user, reply'.arg, enabled)
       \/ \E scale \in ScaleInputs :
             UpdateScale(reply'.user, reply'.arg, scale)

\* C37: unsubscribe, set_subscription_enabled and update_scale_factor return
\* True exactly when the registry holds the pair (the wallet compared in
\* lower case), and a call that returns False leaves the registry, its
\* subscriptions and the store as they were.
C37_MissingPairReturnsFalse ==
    [][MutationCall
          => /\ reply'.ok <=> <<reply'.user, lower(reply'.arg)>> \in Pairs
             /\ ~reply'.ok => UNCHANGED <<heap, subscriptions, subsFile>>]_vars

\* Each of the three was called for a pair the registry does not hold, here
\* the last of them: user 1 does not copy w2.
C37_Witness ==
    /\ reply.op \in {"unsubscribe", "set_subscription_enabled",
                     "update_scale_factor"}
    /\ ~reply.ok
    /\ <<reply.user, lower(reply.arg)>> \notin Pairs
    /\ Pairs # {}

\* C38: each successful registry mutation touches only its target --
\* unsubscribe removes the named pair and no other, set_subscription_enabled
\* changes the flag of the pair and update_scale_factor its scale factor and
\* nothing else of it (the cursor stays), and every other pair, of the same
\* or of another subscriber, keeps its entry with every field.
C38_MutationTouchesOnlyItsTarget ==
    [][(MutationCall /\ reply'.ok)
          => \A target \in {<<reply'.user, lower(reply'.arg)>>} :
               /\ Pairs' \subseteq Pairs
               /\ \A pair \in Pairs \ {target} :
                    pair \in Pairs' /\ Entry(pair)' = Entry(pair)
               /\ reply'.op = "unsubscribe" => Pairs' = Pairs \ {target}
               /\ reply'.op = "set_subscription_enabled"
                    => /\ target \in Pairs'
                       /\ \A enabled \in BOOLEAN :
                            SetEnabled(reply'.user, reply'.arg, enabled)
                              => Entry(target)' = [Entry(target) EXCEPT
                                                     !.enabled = enabled]
               /\ reply'.op = "update_scale_factor"
                    => /\ target \in Pairs'
                       /\ \A scale \in ScaleInputs :
                            UpdateScale(reply'.user, reply'.arg, scale)
                              => Entry(target)' = [Entry(target) EXCEPT
                                                     !.scale_factor = scale]]_vars

\* User 1, who copies w1 (with a cursor past its trade) and w2, has changed
\* the scale factor of w1; user 2 copies w1 too.
C38_Witness ==
    /\ reply.op = "update_scale_factor"
    /\ reply.ok
    /\ {<<reply.user, "w1">>, <<reply.user, "w2">>} \subseteq Pairs
    /\ reply.wallet = "w1"
    /\ Entry(<<reply.user, "w1">>).cursor # ZeroCursor
    /\ \E pair \in Pairs : pair[1] # reply.user

\* ------------------------------------------------ the first cycle

\* User 2 copies w1 and has mirrored its trades; w1 has made a BUY of $0.50
\* and, a second later, a SELL of $2.00, both in the fetch window; every
\* user has a wallet. User 1 has no subscription yet.
InitFresh ==
    /\ InitQuiet
    /\ mode = "manager"
    /\ feed = [w \in Wallets |->
                 IF w = "w1" THEN <<Row(1, 1, <<1>>, "BUY", 1, 50),
                                    Row(2, 2, <<2>>, "SELL", 4, 50)>>
                 ELSE <<>>]
    /\ clientOk = [u \in Users |-> TRUE]
    /\ heap = <<[CopySubscription(2, "w1", "whale", 100) EXCEPT
                   !.cursor = TradePos(Row(2, 2, <<2>>, "SELL", 4, 50))]>>
    /\ subscriptions = <<[user |-> 2, wallet |-> "w1", oid |-> 1]>>
    /\ subsFile = [exists |-> TRUE, data |-> Serialized(subscriptions, heap)]
    /\ cursors = [w \in TARGETS |-> ZeroCursor]
    /\ cursorsFile = [w \in TARGETS |-> ZeroCursor]
    /\ dedup = DedupOff

SpecFresh == InitFresh /\ [][NextRegistry]_vars

====
